---------------------------- MODULE Spec2Model ----------------------------
(***************************************************************************)
(* A model of cargo-release's planning and publishing core:                *)
(*   - the registry index cache        (src/src/ops/index.rs)              *)
(*   - shared-version planning         (src/src/steps/plan.rs)             *)
(*   - templated file replacement      (src/src/ops/replace.rs)            *)
(*   - the publish run                 (src/src/steps/publish.rs)          *)
(* Each part has its own specification (SpecIndex, SpecPlan, SpecReplace,  *)
(* SpecRun, SpecBump, SpecTag, SpecPrior); the variables of the other      *)
(* parts stay at their idle value.                                         *)
(***************************************************************************)
EXTENDS Naturals, Sequences, FiniteSets, TLC

VARIABLES
    index,      \* CratesIoIndex.index : Option<RemoteIndex> (with its etags)
    cache,      \* CratesIoIndex.cache : HashMap<String, Option<IndexKrate>>
    server,     \* the remote registry: what a fetch of a name answers
    etagSupply, \* the cache-validator tokens the registry hands out
    last,       \* the last call made on the index and what it returned
    prev,       \* per name: the latest default-registry query since the
                \* last update_krate of that name
    pkgs,       \* IndexMap<PackageId, PackageRelease>, in map order
    onEntry,    \* pkgs as they were when plan() was entered
    planPc,     \* "idle", "loaded" (before plan()), "planned" (after)
    rargs,      \* do_file_replacements' arguments
    disk,       \* the files under cwd: path -> content, or missing
    disk0,      \* the files as they were when the call was made
    rpc,        \* "idle", "call", "files" (in the loop), "ok", "err"
    todo,       \* the paths of by_file still to be processed, in order
    writes,     \* the paths std::fs::write was called on, in order
    rlog,       \* per path: what its processing read, computed and counted
    rerr,       \* where the call failed
    dryRun,     \* the run's `dry_run`, once --execute has been read
    runPc,      \* "idle", "start", "check", "verify", "publish", "done"
    runIdx,     \* position of the loop the run is in
    selected,   \* selected_pkgs
    failed,     \* the run's `failed` flag
    exit,       \* how the run ended
    trace,      \* the publish invocations and sleeps made, in order
    bumpLast,   \* the last call of bump: its arguments and what it did
    tagCall,    \* a call of render_tag: its arguments and what it rendered
    priorCall   \* the prior-tag discovery of a load: inputs and outcome

indexVars == <<index, cache, server, etagSupply, last, prev>>

planVars == <<pkgs, onEntry, planPc>>

replaceVars == <<rargs, disk, disk0, rpc, todo, writes, rlog, rerr>>

runVars == <<dryRun, runPc, runIdx, selected, failed, exit, trace>>

bumpVars == <<bumpLast>>

tagVars == <<tagCall>>

priorVars == <<priorCall>>

vars ==
    <<index, cache, server, etagSupply, last, prev, pkgs, onEntry, planPc,
      rargs, disk, disk0, rpc, todo, writes, rlog, rerr,
      dryRun, runPc, runIdx, selected, failed, exit, trace, bumpLast,
      tagCall, priorCall>>

-----------------------------------------------------------------------------
(* Bounds *)

\* Versions of a crate are numbered 1..MaxVer; the registry lists 1..k.
MaxVer == 2

\* Package versions are M.0.0 and M.0.0+b1 for M in 1..MaxMajor.
MaxMajor == 2

\* Occurrence bounds of a replacement rule are at most MaxCount; a file
\* holds up to MaxCount + 1 matches of a pattern.
MaxCount == 2

-----------------------------------------------------------------------------
(* Registry index cache: src/src/ops/index.rs *)

Names == {"a", "b"}

\* registry: Option<&str>; None is the default registry (crates.io).
DefaultRegistry == "None"

Registries == {DefaultRegistry, "alt"}

VersionIds == 1..MaxVer

\* Option<IndexKrate>: None, or Some(krate) with the versions it lists.
NoKrate == [some |-> FALSE, versions |-> {}]

SomeKrate(vs) == [some |-> TRUE, versions |-> vs]

\* What the registry can hold for a name: nothing, or versions 1..k.
ServerStates == {NoKrate} \cup {SomeKrate(1..k) : k \in 1..MaxVer}

\* Cache-validator tokens the server may put in a response ("" = no header).
Etags == {"e1", "e2"}

\* What the network does with one fetch: the request cannot be built
\* ("prefail"), the transport fails ("sendfail"), the response arrives but
\* its body cannot be read or parsed ("bodyfail"), or all goes well ("ok").
NetAnswers(supply) ==
    {[open |-> o, outcome |-> "prefail", etag |-> ""] : o \in BOOLEAN}
    \cup {[open |-> TRUE, outcome |-> "sendfail", etag |-> ""]}
    \cup {[open |-> TRUE, outcome |-> oc, etag |-> e] :
            oc \in {"bodyfail", "ok"}, e \in supply \cup {""}}

\* The ways a fetch fails: before the request, in transport, in the response.
FetchFailures == {"prefail", "sendfail", "bodyfail"}

NoNet == [open |-> TRUE, outcome |-> "ok", etag |-> ""]

\* The answers that matter to a query: the network is only involved when
\* the registry is the default one and the name is not cached; connecting
\* can only fail when no connection is open yet.
NetFor(registry, name) ==
    IF registry # DefaultRegistry \/ name \in DOMAIN cache THEN {NoNet}
    ELSE {net \in NetAnswers(etagSupply) : index.some => net.open}

NoIndex == [some |-> FALSE, etags |-> <<>>]

\* RemoteIndex::open, when it succeeds: no etag seen yet.
RemoteIndex_open == [some |-> TRUE, etags |-> <<>>]

\* Position of the first etag entry for `name`, 0 if none.
EtagPosition(etags, name) ==
    IF \E i \in 1..Len(etags) : etags[i].krate = name
    THEN CHOOSE i \in 1..Len(etags) :
            /\ etags[i].krate = name
            /\ \A j \in 1..(i - 1) : etags[j].krate # name
    ELSE 0

\* The etag sent with a request: the first entry for the name, else "".
EtagFor(etags, name) ==
    IF EtagPosition(etags, name) = 0 THEN ""
    ELSE etags[EtagPosition(etags, name)].etag

\* Mutant: a token is always pushed as a new entry.
StoreEtagPush(etags, name, etag) ==
    IF etag = "" THEN etags
    ELSE Append(etags, [krate |-> name, etag |-> etag])

\* "Grab the etag if it exists for future requests".
StoreEtag(etags, name, etag) ==
    IF etag = "" THEN etags
    ELSE IF EtagPosition(etags, name) # 0
         THEN [etags EXCEPT ![EtagPosition(etags, name)].etag = etag]
         ELSE Append(etags, [krate |-> name, etag |-> etag])

\* Mutant: a fetch that fails answers "no such crate".
RemoteIndexKrateAbsentOnError(etags, name, net) ==
    [ok |-> TRUE,
     entry |-> IF net.outcome = "ok" THEN server[name] ELSE NoKrate,
     etags |-> IF net.outcome \in {"bodyfail", "ok"}
               THEN StoreEtag(etags, name, net.etag) ELSE etags,
     reqs |-> IF net.outcome = "prefail" THEN 0 ELSE 1,
     sent |-> IF net.outcome = "prefail" THEN "" ELSE EtagFor(etags, name)]

\* RemoteIndex::krate on an open index with etag table `etags`:
\* the result, the new etag table, the requests issued, the etag sent.
RemoteIndex_krate(etags, name, net) ==
    LET sent == EtagFor(etags, name) IN
    CASE net.outcome = "prefail" ->
            [ok |-> FALSE, entry |-> NoKrate, etags |-> etags,
             reqs |-> 0, sent |-> ""]
      [] net.outcome = "sendfail" ->
            [ok |-> FALSE, entry |-> NoKrate, etags |-> etags,
             reqs |-> 1, sent |-> sent]
      [] net.outcome = "bodyfail" ->
            [ok |-> FALSE, entry |-> NoKrate,
             etags |-> StoreEtag(etags, name, net.etag),
             reqs |-> 1, sent |-> sent]
      [] OTHER ->
            [ok |-> TRUE, entry |-> server[name],
             etags |-> StoreEtag(etags, name, net.etag),
             reqs |-> 1, sent |-> sent]

\* Mutant: an absent entry ("not found") is not remembered.
CacheInsertFound(c, name, entry) ==
    IF entry.some
    THEN [n \in (DOMAIN c) \cup {name} |-> IF n = name THEN entry ELSE c[n]]
    ELSE c

CacheInsert(c, name, entry) ==
    [n \in (DOMAIN c) \cup {name} |-> IF n = name THEN entry ELSE c[n]]

CacheRemove(c, name) ==
    [n \in (DOMAIN c) \ {name} |-> c[n]]

\* CratesIoIndex::krate past the registry check: the cache, then the remote.
KrateDefault(name, net) ==
    IF name \in DOMAIN cache
    THEN [ok |-> TRUE, entry |-> cache[name], index |-> index, cache |-> cache,
          source |-> "cache", reqs |-> 0, sent |-> ""]
    ELSE IF ~index.some /\ ~net.open
    THEN [ok |-> FALSE, entry |-> NoKrate, index |-> index, cache |-> cache,
          source |-> "remote", reqs |-> 0, sent |-> ""]
    ELSE LET opened == IF index.some THEN index ELSE RemoteIndex_open
             r == RemoteIndex_krate(opened.etags, name, net)
         IN  [ok |-> r.ok, entry |-> r.entry,
              index |-> [some |-> TRUE, etags |-> r.etags],
              cache |-> IF r.ok THEN CacheInsert(cache, name, r.entry)
                        ELSE cache,
              source |-> "remote", reqs |-> r.reqs, sent |-> r.sent]

\* Mutant: the registry argument is not looked at.
KrateAnyRegistry(registry, name, net) == KrateDefault(name, net)

\* CratesIoIndex::krate: the result and the index and cache it leaves.
CratesIoIndex_krate(registry, name, net) ==
    IF registry # DefaultRegistry
    THEN [ok |-> TRUE, entry |-> NoKrate, index |-> index, cache |-> cache,
          source |-> "registry", reqs |-> 0, sent |-> ""]
    ELSE KrateDefault(name, net)

BoolStr(b) == IF b THEN "true" ELSE "false"

\* has_krate: Ok(krate.map(|_| true).unwrap_or(false))
HasKrateValue(entry) == BoolStr(entry.some)

\* has_krate_version: Ok(krate.map(|ik| ik.versions.iter().any(..)))
HasKrateVersionValue(entry, version) ==
    IF entry.some
    THEN IF version \in entry.versions THEN "Some(true)" ELSE "Some(false)"
    ELSE "None"

NoPrev == [state |-> "fresh", reqs |-> 0, entry |-> NoKrate, etag |-> ""]

\* The record of a query for the history variables.
QueryRecord(op, registry, name, version, r, val, net) ==
    [op |-> op, registry |-> registry, name |-> name, version |-> version,
     ok |-> r.ok, val |-> IF r.ok THEN val ELSE "Err", entry |-> r.entry,
     source |-> r.source, reqs |-> r.reqs, sent |-> r.sent,
     fetch |-> IF r.source # "remote" THEN "none"
               ELSE IF net.outcome \in FetchFailures THEN "failed" ELSE "ok",
     served |-> server[name], before |-> prev[name]]

PrevAfterQuery(registry, name, r, net) ==
    IF registry # DefaultRegistry THEN prev
    ELSE [prev EXCEPT ![name] =
            [state |-> IF r.ok THEN "ok" ELSE "failed",
             reqs |-> r.reqs, entry |-> r.entry,
             etag |-> IF r.source = "remote" /\ net.etag # ""
                      THEN net.etag ELSE prev[name].etag]]

Query(op, registry, name, version, net) ==
    LET r == CratesIoIndex_krate(registry, name, net)
        val == CASE op = "has_krate" -> HasKrateValue(r.entry)
                 [] op = "has_krate_version" ->
                        HasKrateVersionValue(r.entry, version)
                 [] OTHER -> "krate"
    IN  /\ index' = r.index
        /\ cache' = r.cache
        /\ last' = QueryRecord(op, registry, name, version, r, val, net)
        /\ prev' = PrevAfterQuery(registry, name, r, net)
        /\ UNCHANGED <<server, etagSupply>>

has_krate(registry, name, net) == Query("has_krate", registry, name, 0, net)

has_krate_version(registry, name, version, net) ==
    Query("has_krate_version", registry, name, version, net)

krate(registry, name, net) == Query("krate", registry, name, 0, net)

\* Mutant: the entry is left in the cache.
UpdateKrateKeeps(registry, name) == cache

\* CratesIoIndex::update_krate: the cache it leaves.
UpdateKrateCache(registry, name) ==
    IF registry # DefaultRegistry THEN cache ELSE CacheRemove(cache, name)

update_krate(registry, name) ==
    /\ cache' = UpdateKrateCache(registry, name)
    /\ last' = [op |-> "update_krate", registry |-> registry, name |-> name,
                version |-> 0, ok |-> TRUE, val |-> "()", entry |-> NoKrate,
                source |-> "none", reqs |-> 0, sent |-> "", fetch |-> "none",
                served |-> server[name], before |-> prev[name]]
    /\ prev' = IF registry # DefaultRegistry THEN prev
               ELSE [prev EXCEPT ![name] =
                        [state |-> "invalidated", reqs |-> 0,
                         entry |-> IF name \in DOMAIN cache THEN cache[name]
                                   ELSE NoKrate,
                         etag |-> prev[name].etag]]
    /\ UNCHANGED <<index, server, etagSupply>>

\* The registry lists one more version of a crate (someone published it).
NextServerState(s) ==
    IF ~s.some THEN SomeKrate({1})
    ELSE SomeKrate(s.versions \cup {Cardinality(s.versions) + 1})

ServerPublish(name) ==
    /\ Cardinality(server[name].versions) < MaxVer
    /\ server' = [server EXCEPT ![name] = NextServerState(server[name])]
    /\ UNCHANGED <<index, cache, etagSupply, last, prev>>

NoCall ==
    [op |-> "init", registry |-> DefaultRegistry, name |-> "a", version |-> 0,
     ok |-> TRUE, val |-> "()", entry |-> NoKrate, source |-> "none",
     reqs |-> 0, sent |-> "", fetch |-> "none", served |-> NoKrate,
     before |-> NoPrev]

\* CratesIoIndex::new, against any registry content.
InitIndex ==
    /\ index = NoIndex
    /\ cache = << >>
    /\ server \in [Names -> ServerStates]
    /\ etagSupply = {}
    /\ last = NoCall
    /\ prev = [n \in Names |-> NoPrev]

\* CratesIoIndex::new, against a registry that lists one version of every
\* crate and answers with cache-validator tokens.
InitEtag ==
    /\ index = NoIndex
    /\ cache = << >>
    /\ server = [n \in Names |-> SomeKrate({1})]
    /\ etagSupply \in {Etags, {"e1"}}
    /\ last = NoCall
    /\ prev = [n \in Names |-> NoPrev]

IndexIdle ==
    /\ index = NoIndex
    /\ cache = << >>
    /\ server = [n \in Names |-> NoKrate]
    /\ etagSupply = {}
    /\ last = NoCall
    /\ prev = [n \in Names |-> NoPrev]

-----------------------------------------------------------------------------
(* Token strings and the template renderer: src/src/ops/replace.rs *)

\* A string is a sequence of tokens; a template variable is one token.
RECURSIVE ReplaceToken(_, _, _)
\* str::replace(var_name, var_value)
ReplaceToken(s, tok, val) ==
    IF s = << >> THEN << >>
    ELSE (IF Head(s) = tok THEN val ELSE <<Head(s)>>)
            \o ReplaceToken(Tail(s), tok, val)

None == [some |-> FALSE, val |-> << >>]

Some(v) == [some |-> TRUE, val |-> v]

\* render_var: substitute when the variable is bound, else leave (and warn).
render_var(template, var_name, var_value) ==
    IF var_value.some THEN ReplaceToken(template, var_name, var_value.val)
    ELSE template

\* Template::default()
DefaultTemplate ==
    [prev_version |-> None, prev_metadata |-> None, version |-> None,
     metadata |-> None, crate_name |-> None, date |-> None,
     prefix |-> None, tag_name |-> None]

\* Template::render
render(t, input) ==
    LET s1 == render_var(input, "{{prev_version}}", t.prev_version)
        s2 == render_var(s1, "{{prev_metadata}}", t.prev_metadata)
        s3 == render_var(s2, "{{version}}", t.version)
        s4 == render_var(s3, "{{metadata}}", t.metadata)
        s5 == render_var(s4, "{{crate_name}}", t.crate_name)
        s6 == render_var(s5, "{{date}}", t.date)
        s7 == render_var(s6, "{{prefix}}", t.prefix)
    IN  render_var(s7, "{{tag_name}}", t.tag_name)

-----------------------------------------------------------------------------
(* Versions and planning: src/src/steps/plan.rs *)

Builds == {"", "b1"}

\* semver::Version values used as package versions.
SemVers ==
    {[major |-> m, minor |-> 0, patch |-> 0, pre |-> "", build |-> b] :
        m \in 1..MaxMajor, b \in Builds}

\* Rank of an identifier string in the order semver gives build metadata
\* (the empty one first).
BuildRank(b) == IF b = "" THEN 0 ELSE 1

\* semver::Version's Ord: major, minor, patch, pre-release, build metadata.
\* A version without pre-release follows every pre-release of it.
SemVerLess(x, y) ==
    \/ x.major < y.major
    \/ x.major = y.major /\ x.minor < y.minor
    \/ x.major = y.major /\ x.minor = y.minor /\ x.patch < y.patch
    \/ /\ x.major = y.major /\ x.minor = y.minor /\ x.patch = y.patch
       /\ x.pre # "" /\ y.pre = ""
    \/ /\ x.major = y.major /\ x.minor = y.minor /\ x.patch = y.patch
       /\ x.pre = y.pre
       /\ BuildRank(x.build) < BuildRank(y.build)

NumStr(n) ==
    CASE n = 0 -> "0" [] n = 1 -> "1" [] n = 2 -> "2" [] n = 3 -> "3"
      [] n = 4 -> "4" [] n = 5 -> "5" [] n = 6 -> "6" [] n = 7 -> "7"
      [] n = 8 -> "8" [] OTHER -> "9"

\* semver::Version::to_string
SemVerString(x) ==
    <<NumStr(x.major), ".", NumStr(x.minor), ".", NumStr(x.patch)>>
        \o (IF x.pre = "" THEN << >> ELSE <<"-", x.pre>>)
        \o (IF x.build = "" THEN << >> ELSE <<"+", x.build>>)

\* impl From<semver::Version> for Version
VersionFrom(full) ==
    LET bare == [full EXCEPT !.build = ""] IN
    [full_version |-> full, full_version_string |-> SemVerString(full),
     bare_version |-> bare, bare_version_string |-> SemVerString(bare)]

Versions == {VersionFrom(x) : x \in SemVers}

NoVersion == [some |-> FALSE, v |-> VersionFrom(CHOOSE x \in SemVers : TRUE)]

SomeVersion(v) == [some |-> TRUE, v |-> v]

\* planned_version.as_ref().unwrap_or(&initial_version)
PlannedOrInitial(pkg) ==
    IF pkg.planned_version.some THEN pkg.planned_version.v
    ELSE pkg.initial_version

\* The shared-version groups a package may declare ("" = none declared).
Groups == {"g", "h"}

\* The Template render_tag builds before it renders the prefix.
TagTemplate(name, prevv, base) ==
    [DefaultTemplate EXCEPT
        !.prev_version = Some(prevv.bare_version_string),
        !.prev_metadata = Some(<<prevv.full_version.build>>),
        !.version = Some(base.bare_version_string),
        !.metadata = Some(<<base.full_version.build>>),
        !.crate_name = Some(<<name>>)]

\* let tag_prefix = template.render(tag_prefix)
RenderPrefix(tag_prefix, name, prevv, base) ==
    render(TagTemplate(name, prevv, base), tag_prefix)

\* Mutant: the rendered prefix is put in front of the rendered tag name.
render_tag_prefixed(tag_name, tag_prefix, name, prevv, base) ==
    LET prefix == RenderPrefix(tag_prefix, name, prevv, base)
    IN  prefix \o render([TagTemplate(name, prevv, base) EXCEPT
                            !.prefix = Some(prefix)], tag_name)

\* render_tag
render_tag(tag_name, tag_prefix, name, prevv, base) ==
    LET prefix == RenderPrefix(tag_prefix, name, prevv, base)
    IN  render([TagTemplate(name, prevv, base) EXCEPT
                  !.prefix = Some(prefix)], tag_name)

\* Tag-name and tag-prefix templates a configuration may give.
TagNames ==
    {<<"v", "{{version}}">>, <<"{{prefix}}", "v", "{{version}}">>,
     <<"{{prefix}}">>, <<"{{crate_name}}", "-", "{{prev_version}}">>}

TagPrefixes == {<< >>, <<"{{crate_name}}", "-">>, <<"{{version}}", "/">>}

\* The tag settings of a workspace plan() is given: tagging off (the
\* templates are then not read), the templates of the scenarios, and the
\* template of every token with a prefix that has a version token and with
\* an empty prefix.
PlanTagConfigs ==
    {[tag |-> FALSE, tag_name |-> <<"{{prefix}}", "v", "{{version}}">>,
      tag_prefix |-> <<"{{crate_name}}", "-">>],
     [tag |-> TRUE, tag_name |-> <<"{{prefix}}", "v", "{{version}}">>,
      tag_prefix |-> <<"{{crate_name}}", "-">>]}
    \cup {[tag |-> TRUE,
           tag_name |-> <<"{{prefix}}", "{{prev_version}}", "+",
                          "{{prev_metadata}}", "-", "{{version}}", "+",
                          "{{metadata}}">>,
           tag_prefix |-> tp] : tp \in {<< >>, <<"{{version}}", "/">>}}

\* The versions tags are rendered for: 1.2.3 and the package versions.
TagVersions ==
    {VersionFrom([major |-> 1, minor |-> 2, patch |-> 3, pre |-> "",
                  build |-> b]) : b \in Builds}
    \cup {v \in Versions : v.full_version.build = ""}

NoTagCall ==
    [state |-> "idle", tag_name |-> << >>, tag_prefix |-> << >>, name |-> "",
     prev |-> VersionFrom(CHOOSE x \in SemVers : TRUE),
     base |-> VersionFrom(CHOOSE x \in SemVers : TRUE),
     prefix |-> << >>, tag |-> << >>]

\* A call of render_tag.
RenderTag ==
    /\ tagCall.state = "call"
    /\ tagCall' =
          [tagCall EXCEPT
              !.state = "done",
              !.prefix = RenderPrefix(tagCall.tag_prefix, tagCall.name,
                                      tagCall.prev, tagCall.base),
              !.tag = render_tag(tagCall.tag_name, tagCall.tag_prefix,
                                 tagCall.name, tagCall.prev, tagCall.base)]
    /\ UNCHANGED <<indexVars, planVars, replaceVars, runVars, bumpVars,
                   priorVars>>

InitTag ==
    \E tn \in TagNames, tp \in TagPrefixes, n \in {"foo", "a"},
       p \in TagVersions, b \in TagVersions :
        tagCall = [NoTagCall EXCEPT !.state = "call", !.tag_name = tn,
                                   !.tag_prefix = tp, !.name = n,
                                   !.prev = p, !.base = b]

TagIdle == tagCall = NoTagCall

NextTag == RenderTag

-----------------------------------------------------------------------------
(* Prior-tag discovery in PackageRelease::load: src/src/steps/plan.rs *)

\* The longest tag list of a repository.
MaxTags == 2

\* render_tag_glob: the versions and their metadata become wildcards.
render_tag_glob(tag_name, tag_prefix, name) ==
    LET template ==
            [DefaultTemplate EXCEPT
                !.prev_version = Some(<<"*">>),
                !.prev_metadata = Some(<<"*">>),
                !.version = Some(<<"*">>),
                !.metadata = Some(<<"*">>),
                !.crate_name = Some(<<name>>)]
        prefix == render(template, tag_prefix)
    IN  render([template EXCEPT !.prefix = Some(prefix)], tag_name)

\* globset::Glob::new(&tag_glob) is Ok: no character class is left open.
GlobCompiles(glob) == \A k \in 1..Len(glob) : glob[k] # "["

RECURSIVE GlobMatch(_, _)
\* The compiled matcher: `*` stands for any run of tokens.
GlobMatch(glob, tag) ==
    IF glob = << >> THEN tag = << >>
    ELSE IF Head(glob) = "*"
    THEN \E k \in 0..Len(tag) :
            GlobMatch(Tail(glob), SubSeq(tag, k + 1, Len(tag)))
    ELSE /\ tag # << >>
         /\ Head(tag) = Head(glob)
         /\ GlobMatch(Tail(glob), Tail(tag))

\* git::tag_exists on a repository whose tags are `repo`, latest first.
tag_exists(repo, tag) == \E k \in 1..Len(repo) : repo[k] = tag

\* git::find_last_tag: the most recent tag the matcher accepts.
find_last_tag(repo, glob) ==
    IF \E k \in 1..Len(repo) : GlobMatch(glob, repo[k])
    THEN Some(repo[CHOOSE k \in 1..Len(repo) :
                    /\ GlobMatch(glob, repo[k])
                    /\ \A j \in 1..(k - 1) : ~GlobMatch(glob, repo[j])])
    ELSE None

\* Mutant: a glob that does not compile makes load fail.
PriorTagStrictGlob(tag_name, tag_prefix, name, initial_version, repo, git_ok) ==
    LET initial_tag == render_tag(tag_name, tag_prefix, name,
                                  initial_version, initial_version)
        tag_glob == render_tag_glob(tag_name, tag_prefix, name)
    IN  IF ~git_ok
        THEN [ok |-> FALSE, prior_tag |-> None, searched |-> FALSE]
        ELSE IF tag_exists(repo, initial_tag)
        THEN [ok |-> TRUE, prior_tag |-> Some(initial_tag),
              searched |-> FALSE]
        ELSE IF GlobCompiles(tag_glob)
        THEN [ok |-> TRUE, prior_tag |-> find_last_tag(repo, tag_glob),
              searched |-> TRUE]
        ELSE [ok |-> FALSE, prior_tag |-> None, searched |-> FALSE]

\* let prior_tag = ... in load: whether load goes on, the prior tag, and
\* whether find_last_tag was called.  tag_exists may fail (`?`).
PriorTag(tag_name, tag_prefix, name, initial_version, repo, git_ok) ==
    LET initial_tag == render_tag(tag_name, tag_prefix, name,
                                  initial_version, initial_version)
    IN  IF ~git_ok
        THEN [ok |-> FALSE, prior_tag |-> None, searched |-> FALSE]
        ELSE IF tag_exists(repo, initial_tag)
        THEN [ok |-> TRUE, prior_tag |-> Some(initial_tag),
              searched |-> FALSE]
        ELSE LET tag_glob == render_tag_glob(tag_name, tag_prefix, name)
             IN  IF GlobCompiles(tag_glob)
                 THEN [ok |-> TRUE,
                       prior_tag |-> find_last_tag(repo, tag_glob),
                       searched |-> TRUE]
                 ELSE [ok |-> TRUE, prior_tag |-> None, searched |-> FALSE]

\* Tag-name templates a configuration may give; the last one renders a glob
\* that does not compile.
PriorTagNames ==
    {<<"{{prefix}}", "v", "{{version}}">>, <<"v", "{{version}}">>,
     <<"{{prefix}}", "[", "{{version}}">>}

PriorTagPrefixes == {<< >>, <<"{{crate_name}}", "-">>}

\* Tags a repository may hold.
RepoTags ==
    {<<"a", "-", "v">> \o SemVerString([major |-> m, minor |-> 0,
                                        patch |-> 0, pre |-> "", build |-> ""]) :
        m \in 1..MaxMajor}
    \cup {<<"v", "1", ".", "0", ".", "0">>,
          <<"b", "-", "v", "1", ".", "0", ".", "0">>}

\* The tag lists of a repository, latest first.
Repos ==
    UNION {{q \in [1..k -> RepoTags] :
                \A i, j \in 1..k : q[i] = q[j] => i = j} : k \in 0..MaxTags}

NoPriorCall ==
    [state |-> "idle", tag_name |-> << >>, tag_prefix |-> << >>, name |-> "",
     initial_version |-> VersionFrom(CHOOSE x \in SemVers : TRUE),
     repo |-> << >>, git_ok |-> TRUE,
     ok |-> TRUE, prior_tag |-> None, loaded |-> None, searched |-> FALSE]

\* The prior-tag part of PackageRelease::load.
LoadPriorTag ==
    /\ priorCall.state = "call"
    /\ LET r == PriorTag(priorCall.tag_name, priorCall.tag_prefix,
                         priorCall.name, priorCall.initial_version,
                         priorCall.repo, priorCall.git_ok)
       IN  priorCall' = [priorCall EXCEPT !.state = "done", !.ok = r.ok,
                                          !.prior_tag = r.prior_tag,
                                          !.loaded = r.prior_tag,
                                          !.searched = r.searched]
    /\ UNCHANGED <<indexVars, planVars, replaceVars, runVars, bumpVars,
                   tagVars>>

\* PackageRelease::set_prior_tag: a loaded package's prior tag is replaced
\* by the tag given, whatever load found and whatever the repository holds.
set_prior_tag(prior_tag) ==
    /\ priorCall.state \in {"done", "set"}
    /\ priorCall.ok
    /\ priorCall' = [priorCall EXCEPT !.state = "set",
                                      !.prior_tag = Some(prior_tag)]
    /\ UNCHANGED <<indexVars, planVars, replaceVars, runVars, bumpVars,
                   tagVars>>

InitPrior ==
    \E tn \in PriorTagNames, tp \in PriorTagPrefixes, n \in Names,
       v \in Versions, repo \in Repos, g \in BOOLEAN :
        priorCall = [NoPriorCall EXCEPT !.state = "call", !.tag_name = tn,
                                       !.tag_prefix = tp, !.name = n,
                                       !.initial_version = v,
                                       !.repo = repo, !.git_ok = g]

PriorIdle == priorCall = NoPriorCall

NextPrior ==
    \/ LoadPriorTag
    \/ \E t \in RepoTags : set_prior_tag(t)

\* Mutant: the recorded maximum is compared by bare version.
ScanStepBare(shared, pkg) ==
    IF ~pkg.release \/ pkg.shared_version = "" THEN shared
    ELSE LET g == pkg.shared_version
             version == IF pkg.planned_version.some THEN pkg.planned_version.v
                        ELSE pkg.initial_version
         IN  IF g \in DOMAIN shared
             THEN IF SemVerLess(shared[g].bare_version, version.bare_version)
                  THEN [shared EXCEPT ![g] = version]
                  ELSE shared
             ELSE [x \in (DOMAIN shared) \cup {g} |->
                    IF x = g THEN version ELSE shared[x]]

\* Mutant: the first member seen stays the recorded maximum.
ScanStepFirst(shared, pkg) ==
    IF ~pkg.release \/ pkg.shared_version = "" THEN shared
    ELSE IF pkg.shared_version \in DOMAIN shared THEN shared
    ELSE [x \in (DOMAIN shared) \cup {pkg.shared_version} |->
            IF x = pkg.shared_version
            THEN IF pkg.planned_version.some THEN pkg.planned_version.v
                 ELSE pkg.initial_version
            ELSE shared[x]]

\* The first pass of plan(): one package against the group maxima so far.
\* `shared` maps the group names seen so far to a Version.
ScanStep(shared, pkg) ==
    IF ~pkg.release THEN shared
    ELSE IF pkg.shared_version = "" THEN shared
    ELSE LET g == pkg.shared_version
             version == PlannedOrInitial(pkg)
         IN  IF g \in DOMAIN shared
             THEN IF SemVerLess(shared[g].full_version, version.full_version)
                  THEN [shared EXCEPT ![g] = version]
                  ELSE shared
             ELSE [x \in (DOMAIN shared) \cup {g} |->
                    IF x = g THEN version ELSE shared[x]]

RECURSIVE ScanPass(_, _)
\* for pkg in pkgs.values() { ... }, from the maxima `shared`
ScanPass(shared, ps) ==
    IF ps = << >> THEN shared
    ELSE ScanPass(ScanStep(shared, Head(ps)), Tail(ps))

\* Mutant: the release flag is not looked at in the second pass.
AssignStepAnyRelease(shared, pkg) ==
    IF pkg.shared_version \notin DOMAIN shared THEN pkg
    ELSE IF pkg.initial_version.bare_version
                # shared[pkg.shared_version].bare_version
         THEN [pkg EXCEPT !.planned_version =
                            SomeVersion(shared[pkg.shared_version])]
         ELSE [pkg EXCEPT !.planned_version = NoVersion]

\* Mutant: a member already at the maximum keeps the planned version it had.
AssignStepKeepsPlanned(shared, pkg) ==
    IF ~pkg.release \/ pkg.shared_version = "" THEN pkg
    ELSE IF pkg.initial_version.bare_version
                # shared[pkg.shared_version].bare_version
         THEN [pkg EXCEPT !.planned_version =
                            SomeVersion(shared[pkg.shared_version])]
         ELSE pkg

\* The second pass of plan(), for one package.
AssignStep(shared, pkg) ==
    IF ~pkg.release THEN pkg
    ELSE IF pkg.shared_version = "" THEN pkg
    ELSE LET shared_max == shared[pkg.shared_version] IN
         IF pkg.initial_version.bare_version # shared_max.bare_version
         THEN [pkg EXCEPT !.planned_version = SomeVersion(shared_max)]
         ELSE [pkg EXCEPT !.planned_version = NoVersion]

\* Mutant: the base version is passed as the previous version too.
PackageReleasePlanBaseAsPrev(pkg) ==
    IF ~pkg.release THEN pkg
    ELSE [pkg EXCEPT !.planned_tag =
            IF pkg.tag
            THEN Some(render_tag(pkg.tag_name, pkg.tag_prefix, pkg.name,
                                 PlannedOrInitial(pkg), PlannedOrInitial(pkg)))
            ELSE None]

\* PackageRelease::plan
PackageRelease_plan(pkg) ==
    IF ~pkg.release THEN pkg
    ELSE LET base == PlannedOrInitial(pkg)
             tag == IF pkg.tag
                    THEN Some(render_tag(pkg.tag_name, pkg.tag_prefix,
                                         pkg.name, pkg.initial_version,
                                         base))
                    ELSE None
         IN  [pkg EXCEPT !.planned_tag = tag]

\* plan(): the map it returns.
plan(ps) ==
    LET shared_versions == ScanPass(<< >>, ps)
        assigned ==
            IF DOMAIN shared_versions # {}
            THEN [i \in 1..Len(ps) |-> AssignStep(shared_versions, ps[i])]
            ELSE ps
    IN  [i \in 1..Len(ps) |-> PackageRelease_plan(assigned[i])]

\* PackageRelease::load leaves planned_tag at None; the planned version is
\* what the bumps before plan() have left; tag, tag_name and tag_prefix are
\* what config.tag(), config.tag_name() and config.tag_prefix(is_root) give
\* under the tag settings `c` of the workspace.
PackageStates(name, c) ==
    [name : {name}, release : BOOLEAN, shared_version : Groups \cup {""},
     tag : {c.tag}, tag_name : {c.tag_name}, tag_prefix : {c.tag_prefix},
     initial_version : Versions,
     planned_version : {NoVersion} \cup {SomeVersion(v) : v \in Versions},
     planned_tag : {None}]

PlanAll ==
    /\ planPc = "loaded"
    /\ pkgs' = plan(pkgs)
    /\ onEntry' = pkgs
    /\ planPc' = "planned"
    /\ UNCHANGED <<indexVars, replaceVars, runVars, bumpVars,
                   tagVars, priorVars>>

\* The packages of one workspace share its tag settings.
InitPlan ==
    /\ \E c \in PlanTagConfigs :
          \E pa \in PackageStates("a", c), pb \in PackageStates("b", c) :
          /\ pkgs = <<pa, pb>>
    /\ onEntry = << >>
    /\ planPc = "loaded"

PlanIdle ==
    /\ pkgs = << >>
    /\ onEntry = << >>
    /\ planPc = "idle"

NextPlan == PlanAll

-----------------------------------------------------------------------------
(* PackageRelease::bump: src/src/steps/plan.rs *)

\* config::MetadataPolicy
Policies == {"Optional", "Required", "Ignore", "Persistent"}

\* Option<&str>, the metadata override and what bump resolves it to.
NoMeta == [some |-> FALSE, s |-> ""]

Meta(s) == [some |-> TRUE, s |-> s]

Overrides == {NoMeta, Meta("b1"), Meta("b2")}

\* TargetVersion: a level to raise, or a version to go to.
Targets ==
    {[kind |-> "relative", level |-> l, version |-> CHOOSE x \in SemVers : TRUE] :
        l \in {"major", "minor", "patch"}}
    \cup {[kind |-> "absolute", level |-> "", version |-> x] :
            x \in {y \in SemVers : y.build = ""}}

\* TargetVersion::bump: the requested bump applied to the initial full
\* version, combined with the resolved metadata.
TargetVersion_bump(target, current, metadata) ==
    LET build == IF metadata.some THEN metadata.s ELSE ""
        raised ==
            CASE target.level = "major" ->
                    [current EXCEPT !.major = @ + 1, !.minor = 0, !.patch = 0]
              [] target.level = "minor" ->
                    [current EXCEPT !.minor = @ + 1, !.patch = 0]
              [] OTHER -> [current EXCEPT !.patch = @ + 1]
        full == IF target.kind = "relative"
                THEN [raised EXCEPT !.pre = "", !.build = build]
                ELSE [target.version EXCEPT !.build = build]
    IN  SomeVersion(VersionFrom(full))

\* Mutant: a missing override is let through under Required.
ResolveMetadataLax(policy, initial_metadata, metadata) ==
    [ok |-> TRUE, metadata |-> metadata]

\* Mutant: under Persistent the initial version's metadata wins over an
\* override.
ResolveMetadataInitialFirst(policy, initial_metadata, metadata) ==
    CASE policy = "Required" /\ ~metadata.some ->
            [ok |-> FALSE, metadata |-> NoMeta]
      [] policy = "Ignore" -> [ok |-> TRUE, metadata |-> NoMeta]
      [] policy = "Persistent" /\ initial_metadata # "" ->
            [ok |-> TRUE, metadata |-> Meta(initial_metadata)]
      [] OTHER -> [ok |-> TRUE, metadata |-> metadata]

\* The match on self.config.metadata(): an error, or the metadata to apply.
ResolveMetadata(policy, initial_metadata, metadata) ==
    CASE policy = "Optional" -> [ok |-> TRUE, metadata |-> metadata]
      [] policy = "Required" ->
            IF ~metadata.some THEN [ok |-> FALSE, metadata |-> NoMeta]
            ELSE [ok |-> TRUE, metadata |-> metadata]
      [] policy = "Ignore" -> [ok |-> TRUE, metadata |-> NoMeta]
      [] OTHER ->
            IF initial_metadata # "" /\ ~metadata.some
            THEN [ok |-> TRUE, metadata |-> Meta(initial_metadata)]
            ELSE [ok |-> TRUE, metadata |-> metadata]

\* Mutant: the bump starts from the planned version when there is one.
BumpPackageFromPlanned(pkg, target, metadata) ==
    LET r == ResolveMetadata(pkg.metadata,
                             pkg.initial_version.full_version.build, metadata)
    IN  IF ~r.ok THEN pkg
        ELSE [pkg EXCEPT !.planned_version =
                TargetVersion_bump(target, PlannedOrInitial(pkg).full_version,
                                   r.metadata)]

\* The package record after bump.
BumpPackage(pkg, target, metadata) ==
    LET r == ResolveMetadata(pkg.metadata,
                             pkg.initial_version.full_version.build, metadata)
    IN  IF ~r.ok THEN pkg
        ELSE [pkg EXCEPT !.planned_version =
                TargetVersion_bump(target, pkg.initial_version.full_version,
                                   r.metadata)]

NoBump ==
    [called |-> FALSE, i |-> 0, target |-> CHOOSE t \in Targets : TRUE,
     override |-> NoMeta, ok |-> TRUE, metadata |-> NoMeta]

\* PackageRelease::bump on the i-th package.
bump(i, target, metadata) ==
    /\ planPc = "bump"
    /\ LET r == ResolveMetadata(pkgs[i].metadata,
                                pkgs[i].initial_version.full_version.build,
                                metadata)
       IN  bumpLast' = [called |-> TRUE, i |-> i, target |-> target,
                        override |-> metadata, ok |-> r.ok,
                        metadata |-> r.metadata]
    /\ pkgs' = [pkgs EXCEPT ![i] = BumpPackage(pkgs[i], target, metadata)]
    /\ onEntry' = pkgs
    /\ UNCHANGED <<planPc, indexVars, replaceVars, runVars, tagVars, priorVars>>

\* A loaded package with its metadata policy; an earlier bump may have
\* planned a version for it.
BumpPackageStates(name) ==
    [name : {name}, release : {TRUE}, shared_version : {""}, tag : {TRUE},
     tag_name : {<<"{{prefix}}", "v", "{{version}}">>},
     tag_prefix : {<<"{{crate_name}}", "-">>},
     metadata : Policies, initial_version : Versions,
     planned_version : {NoVersion} \cup {SomeVersion(v) : v \in Versions},
     planned_tag : {None}]

InitBump ==
    /\ \E p \in BumpPackageStates("a") : pkgs = <<p>>
    /\ onEntry = << >>
    /\ planPc = "bump"
    /\ bumpLast = NoBump

BumpIdle == bumpLast = NoBump

NextBump ==
    \E i \in 1..Len(pkgs), target \in Targets, metadata \in Overrides :
        bump(i, target, metadata)

-----------------------------------------------------------------------------
(* File replacement: src/src/ops/replace.rs *)

Files == {"f1", "f2"}

\* The order of PathBuf keys in the BTreeMap.
PathRank(f) == IF f = "f1" THEN 1 ELSE 2

MissingFile == [exists |-> FALSE, data |-> << >>]

FileWith(data) == [exists |-> TRUE, data |-> data]

\* Option<usize>
NoNum == [some |-> FALSE, n |-> 0]

Num(n) == [some |-> TRUE, n |-> n]

\* The template the replacements are rendered with.
ReplaceTemplate ==
    [DefaultTemplate EXCEPT !.prev_version = Some(<<"old">>),
                            !.version = Some(<<"new">>),
                            !.crate_name = Some(<<"a">>)]

\* The min / max / exactly settings a rule may carry.
BoundChoices ==
    {[min |-> NoNum, max |-> NoNum, exactly |-> NoNum]}
    \cup {[min |-> NoNum, max |-> NoNum, exactly |-> Num(n)] : n \in 1..MaxCount}
    \cup {[min |-> Num(n), max |-> NoNum, exactly |-> NoNum] : n \in {0, MaxCount}}
    \cup {[min |-> NoNum, max |-> Num(1), exactly |-> NoNum]}
    \cup {[min |-> Num(0), max |-> NoNum, exactly |-> Num(1)]}
    \cup {[min |-> NoNum, max |-> Num(MaxCount), exactly |-> Num(1)]}

DefaultBounds == [min |-> NoNum, max |-> NoNum, exactly |-> NoNum]

Rule(file, search, replace, b, prerelease) ==
    [file |-> file, search |-> search, replace |-> replace, min |-> b.min,
     max |-> b.max, exactly |-> b.exactly, prerelease |-> prerelease]

\* config::Replace values: a pattern that matches one token, a template.
RuleChoices ==
    {Rule(f, "old", <<"{{version}}">>, b, TRUE) :
        f \in Files, b \in BoundChoices}
    \cup {Rule(f, "old", <<"{{version}}">>, DefaultBounds, FALSE) : f \in Files}
    \cup {Rule(f, "old", <<"{{prev_version}}">>, DefaultBounds, TRUE) :
            f \in Files}
    \cup {Rule(f, "new", <<"{{prev_version}}">>, DefaultBounds, TRUE) :
            f \in Files}

\* replace_config: up to two rules.
RuleLists ==
    {<< >>} \cup {<<r>> : r \in RuleChoices}
    \cup {<<r, q>> : r \in RuleChoices, q \in RuleChoices}

RECURSIVE Repeat(_, _)
Repeat(tok, n) == IF n = 0 THEN << >> ELSE <<tok>> \o Repeat(tok, n - 1)

\* What the first file may hold: up to MaxCount + 1 matches of "old", with
\* or without a "new" after them.
Contents ==
    {Repeat("old", k) \o t : k \in 0..(MaxCount + 1), t \in {<< >>, <<"new">>}}

\* r.find_iter(&replaced).count()
CountMatches(s, tok) == Cardinality({i \in 1..Len(s) : s[i] = tok})

\* Mutant: `exactly` comes before `min`.
EffectiveMinExactlyFirst(rule) ==
    IF rule.exactly.some THEN rule.exactly.n
    ELSE IF rule.min.some THEN rule.min.n
    ELSE 1

\* replace.min.or(replace.exactly).unwrap_or(1)
EffectiveMin(rule) ==
    IF rule.min.some THEN rule.min.n
    ELSE IF rule.exactly.some THEN rule.exactly.n
    ELSE 1

\* replace.max.or(replace.exactly); unwrap_or(usize::MAX) when absent
EffectiveMax(rule) == IF rule.max.some THEN rule.max ELSE rule.exactly

\* Mutant: only the lower bound is checked.
BoundsCheckMin(rule, actual) ==
    IF actual < EffectiveMin(rule) THEN "few" ELSE "ok"

\* The check of the count against the bounds: usize::MAX, the bound when no
\* maximum is set, is never below a count.
BoundsCheck(rule, actual) ==
    IF actual < EffectiveMin(rule) THEN "few"
    ELSE IF EffectiveMax(rule).some /\ EffectiveMax(rule).n < actual
    THEN "many"
    ELSE "ok"

\* One rule on the in-memory content: what was counted and what it left.
ApplyRule(replaced, rule, prerelease, template) ==
    IF prerelease /\ ~rule.prerelease
    THEN [rule |-> rule, skipped |-> TRUE, actual |-> 0, ok |-> TRUE,
          before |-> replaced, after |-> replaced]
    ELSE LET actual == CountMatches(replaced, rule.search)
             replacer == render(template, rule.replace)
         IN  IF BoundsCheck(rule, actual) # "ok"
             THEN [rule |-> rule, skipped |-> FALSE, actual |-> actual,
                   ok |-> FALSE, before |-> replaced, after |-> replaced]
             ELSE [rule |-> rule, skipped |-> FALSE, actual |-> actual,
                   ok |-> TRUE, before |-> replaced,
                   after |-> ReplaceToken(replaced, rule.search, replacer)]

\* Mutant: every rule is counted on, and applied to, the content as read.
ApplyRulesOnRead(replaced, rules, prerelease, template) ==
    LET steps == [i \in 1..Len(rules) |->
                    ApplyRule(replaced, rules[i], prerelease, template)]
        bad == {i \in 1..Len(rules) : ~steps[i].ok}
    IN  IF bad = {} THEN steps
        ELSE SubSeq(steps, 1, CHOOSE i \in bad : \A j \in bad : i <= j)

RECURSIVE ApplyRules(_, _, _, _)
\* for replace in replaces { ... }: the steps taken, up to the first failure
ApplyRules(replaced, rules, prerelease, template) ==
    IF rules = << >> THEN << >>
    ELSE LET step == ApplyRule(replaced, Head(rules), prerelease, template)
         IN  IF ~step.ok THEN <<step>>
             ELSE <<step>> \o ApplyRules(step.after, Tail(rules), prerelease,
                                         template)

\* The rules of one path, in declaration order.
RulesFor(config, path) == SelectSeq(config, LAMBDA r : r.file = path)

RECURSIVE ByFileKeysDeclared(_)
\* Mutant: the files come in the order their first rule is declared in.
ByFileKeysDeclared(config) ==
    IF config = << >> THEN << >>
    ELSE <<Head(config).file>>
            \o ByFileKeysDeclared(
                    SelectSeq(Tail(config),
                              LAMBDA r : r.file # Head(config).file))

\* The keys of by_file, ascending.
ByFileKeys(config) ==
    LET used == {config[i].file : i \in 1..Len(config)}
        first == {f \in used : \A g \in used : PathRank(f) <= PathRank(g)}
    IN  IF used = {} THEN << >>
        ELSE IF Cardinality(used) = 1 THEN <<CHOOSE f \in used : TRUE>>
        ELSE <<CHOOSE f \in first : TRUE, CHOOSE f \in used \ first : TRUE>>

\* Mutant: a changed file is written in a dry run too.
ShouldWriteAnyRun(data, replaced, dry_run) == data # replaced

\* if data != replaced { if dry_run { status } else { write } }
ShouldWrite(data, replaced, dry_run) == data # replaced /\ ~dry_run

PendingLog == [state |-> "pending", data |-> << >>, replaced |-> << >>,
               steps |-> << >>]

NoError == [file |-> "", why |-> ""]

\* The grouping by file at the start of do_file_replacements.
GroupByFile ==
    /\ rpc = "call"
    /\ rpc' = "files"
    /\ todo' = ByFileKeys(rargs.replace_config)
    /\ UNCHANGED <<rargs, disk, disk0, writes, rlog, rerr>>
    /\ UNCHANGED <<indexVars, planVars, runVars, bumpVars, tagVars, priorVars>>

\* One iteration of the loop over by_file.
ReplaceInFile ==
    /\ rpc = "files"
    /\ todo # << >>
    /\ LET path == Head(todo) IN
       IF ~disk[path].exists
       THEN /\ rpc' = "err"
            /\ rerr' = [file |-> path, why |-> "missing"]
            /\ rlog' = [rlog EXCEPT ![path].state = "missing"]
            /\ UNCHANGED <<disk, todo, writes>>
       ELSE LET data == disk[path].data
                steps == ApplyRules(data, RulesFor(rargs.replace_config, path),
                                    rargs.prerelease, rargs.template)
                bailed == steps # << >> /\ ~steps[Len(steps)].ok
                replaced == IF steps = << >> THEN data
                            ELSE steps[Len(steps)].after
            IN  IF bailed
                THEN /\ rpc' = "err"
                     /\ rerr' = [file |-> path, why |-> "bounds"]
                     /\ rlog' = [rlog EXCEPT ![path] =
                                    [state |-> "failed", data |-> data,
                                     replaced |-> replaced, steps |-> steps]]
                     /\ UNCHANGED <<disk, todo, writes>>
                ELSE /\ IF ShouldWrite(data, replaced, rargs.dry_run)
                        THEN /\ disk' = [disk EXCEPT ![path] = FileWith(replaced)]
                             /\ writes' = Append(writes, path)
                        ELSE UNCHANGED <<disk, writes>>
                     /\ rlog' = [rlog EXCEPT ![path] =
                                    [state |-> "done", data |-> data,
                                     replaced |-> replaced, steps |-> steps]]
                     /\ todo' = Tail(todo)
                     /\ UNCHANGED <<rpc, rerr>>
    /\ UNCHANGED <<rargs, disk0, indexVars, planVars, runVars, bumpVars,
                   tagVars, priorVars>>

\* Ok(true) after the loop.
ReplaceReturn ==
    /\ rpc = "files"
    /\ todo = << >>
    /\ rpc' = "ok"
    /\ UNCHANGED <<rargs, disk, disk0, todo, writes, rlog, rerr>>
    /\ UNCHANGED <<indexVars, planVars, runVars, bumpVars, tagVars, priorVars>>

InitReplace ==
    /\ rargs \in [replace_config : RuleLists, template : {ReplaceTemplate},
                  prerelease : BOOLEAN, dry_run : BOOLEAN]
    /\ disk \in [Files -> {MissingFile} \cup {FileWith(c) : c \in Contents}]
    /\ disk["f2"] \in {MissingFile, FileWith(<< >>), FileWith(<<"old">>)}
    /\ disk0 = disk
    /\ rpc = "call"
    /\ todo = << >>
    /\ writes = << >>
    /\ rlog = [f \in Files |-> PendingLog]
    /\ rerr = NoError

ReplaceIdle ==
    /\ rargs = [replace_config |-> << >>, template |-> DefaultTemplate,
                prerelease |-> FALSE, dry_run |-> TRUE]
    /\ disk = [f \in Files |-> MissingFile]
    /\ disk0 = disk
    /\ rpc = "idle"
    /\ todo = << >>
    /\ writes = << >>
    /\ rlog = [f \in Files |-> PendingLog]
    /\ rerr = NoError

NextReplace == GroupByFile \/ ReplaceInFile \/ ReplaceReturn

-----------------------------------------------------------------------------
(* The publish step: src/src/steps/publish.rs *)

\* Exit code of a run that selected no package.
ExitNoPackages == 2

\* Exit code of a run whose publish invocation reported failure.
ExitPublishFailed == 101

\* The result of run(): not returned yet, Ok(()), or Err(code).
Running == [done |-> FALSE, code |-> 0, ok |-> FALSE]

Returned == [done |-> TRUE, code |-> 0, ok |-> TRUE]

Exited(code) == [done |-> TRUE, code |-> code, ok |-> FALSE]

\* confirm(step, pkgs, no_confirm, dry_run) is Ok: only a real run without
\* --no-confirm asks, and it goes on when the user confirmed.
confirm(no_confirm, dry, confirmed) == dry \/ no_confirm \/ confirmed

\* The key of a version string in the registry model: the registry's
\* version k is the string "k.0.0"; a string with build metadata is a key
\* of its own.
VersionKey(version) ==
    IF version.full_version.build = "" THEN version.full_version.major
    ELSE MaxVer + MaxMajor + version.full_version.major

\* Values of PUBLISH_GRACE_SLEEP: unset, zero, five seconds, not a number.
GraceSettings == {"", "0", "5", "x"}

\* Mutant: a setting that is not a number counts as one second.
ParseGraceLenient(setting) ==
    IF setting = "5" THEN 5 ELSE IF setting = "x" THEN 1 ELSE 0

\* std::env::var(..).unwrap_or_else(default).parse().unwrap_or(0)
ParseGrace(setting) == IF setting = "5" THEN 5 ELSE 0

\* The packages as plan::load returns them for the publish step.
RunPackageStates(name) ==
    [name : {name}, release : BOOLEAN, publish : BOOLEAN, verify : BOOLEAN,
     registry : Registries, shared_version : {"", "g"}, tag : {TRUE},
     tag_name : {<<"{{prefix}}", "v", "{{version}}">>},
     tag_prefix : {<<"{{crate_name}}", "-">>},
     initial_version : Versions, planned_version : {NoVersion},
     planned_tag : {None}]

\* The loop over excluded_pkgs, for one package.
Exclude(pkg, excluded) ==
    IF pkg.name \in excluded /\ pkg.release
    THEN [pkg EXCEPT !.publish = FALSE, !.release = FALSE]
    ELSE pkg

\* Mutant: only the publish flag is cleared.
DisablePublishOnly(pkg) == [pkg EXCEPT !.publish = FALSE]

\* publish = Some(false); release = Some(false) for a published version.
Disable(pkg) == [pkg EXCEPT !.publish = FALSE, !.release = FALSE]

\* cargo::is_published: the index answered that the version is listed. The
\* call site takes a plain bool, so a failed query and a None answer are
\* both "not published".
is_published(registry, name, version, net) ==
    LET r == CratesIoIndex_krate(registry, name, net)
    IN  r.ok /\ HasKrateVersionValue(r.entry, version) = "Some(true)"

\* Mutant: the verify argument is the package's policy in every run.
VerifyFlagPolicy(pkg, batch, dry_run) == pkg.verify

\* The verify argument of one publish invocation.
VerifyFlag(pkg, batch, dry_run) ==
    IF ~pkg.verify THEN FALSE
    ELSE IF dry_run /\ Len(batch) # 1 THEN FALSE
    ELSE TRUE

\* What a publish invocation may report: Ok(true), Ok(false), Err.
PublishOutcomes == {"ok", "fail", "err"}

\* Mutant: a failed invocation is taken for a success.
PublishSucceededAny(out) == TRUE

\* if !cargo::publish(..)? { return Err(101) }: only Ok(true) goes on.
PublishSucceeded(out) == out = "ok"

\* The registry after a real publish of a version.
Published(s, key) == SomeKrate(s.versions \cup {key})

\* What the user may have excluded from the run.
Exclusions == {{}, {"b"}}

\* The exclusions, plan and CratesIoIndex::new, after load.
RunPlan ==
    /\ runPc = "start"
    /\ \E excluded \in Exclusions :
          /\ onEntry' = [i \in 1..Len(pkgs) |-> Exclude(pkgs[i], excluded)]
          /\ pkgs' = plan(onEntry')
    /\ index' = NoIndex
    /\ cache' = << >>
    /\ runPc' = "check"
    /\ runIdx' = 1
    /\ UNCHANGED <<server, etagSupply, last, prev, planPc, dryRun,
                   selected, failed, exit, trace, replaceVars, bumpVars,
                   tagVars, priorVars>>

\* One iteration of the loop that asks the index about each package.
RunCheck ==
    /\ runPc = "check"
    /\ runIdx <= Len(pkgs)
    /\ LET pkg == pkgs[runIdx]
           version == VersionKey(PlannedOrInitial(pkg))
       IN  IF ~pkg.release
           THEN UNCHANGED <<pkgs, indexVars>>
           ELSE \E net \in NetFor(pkg.registry, pkg.name) :
                  /\ has_krate_version(pkg.registry, pkg.name, version, net)
                  /\ pkgs' = IF is_published(pkg.registry, pkg.name, version,
                                             net)
                             THEN [pkgs EXCEPT ![runIdx] = Disable(pkg)]
                             ELSE pkgs
    /\ runIdx' = runIdx + 1
    /\ UNCHANGED <<onEntry, planPc, dryRun, runPc, selected, failed, exit,
                   trace, replaceVars, bumpVars, tagVars, priorVars>>

RECURSIVE Reverse(_)
Reverse(q) == IF q = << >> THEN << >> ELSE Append(Reverse(Tail(q)), Head(q))

\* Mutant: the selected packages come out in the opposite order.
PartitionReversed(ps) == Reverse(SelectSeq(ps, LAMBDA p : p.release))

\* pkgs.into_iter().partition(|p| p.config.release()): the selected ones.
Partition(ps) == SelectSeq(ps, LAMBDA p : p.release)

\* The partition on the release flag, the exit when nothing is left, and
\* dry_run = !self.execute.
RunSelect ==
    /\ runPc = "check"
    /\ runIdx > Len(pkgs)
    /\ selected' = Partition(pkgs)
    /\ IF selected' = << >>
       THEN /\ exit' = Exited(ExitNoPackages)
            /\ runPc' = "done"
            /\ UNCHANGED dryRun
       ELSE /\ \E execute \in BOOLEAN : dryRun' = ~execute
            /\ runPc' = "verify"
            /\ UNCHANGED exit
    /\ UNCHANGED <<indexVars, planVars, runIdx, failed, trace, replaceVars,
                   bumpVars, tagVars, priorVars>>

\* The verifications and the confirmation: a problem found fails a dry run
\* at its end and ends a real run at once; a confirmation the user declines
\* ends the run with Err(0) before anything is published.
RunVerify ==
    /\ runPc = "verify"
    /\ \E problem \in BOOLEAN, no_confirm \in BOOLEAN, confirmed \in BOOLEAN :
          IF problem /\ ~dryRun
          THEN /\ exit' = Exited(ExitPublishFailed)
               /\ runPc' = "done"
               /\ UNCHANGED <<failed, runIdx>>
          ELSE IF ~confirm(no_confirm, dryRun, confirmed)
          THEN /\ failed' = problem
               /\ exit' = Exited(0)
               /\ runPc' = "done"
               /\ UNCHANGED runIdx
          ELSE /\ failed' = problem
               /\ runPc' = "publish"
               /\ runIdx' = 1
               /\ UNCHANGED exit
    /\ UNCHANGED <<indexVars, planVars, dryRun, selected, trace,
                   replaceVars, bumpVars, tagVars, priorVars>>

\* One iteration of the loop of publish().
RunPublish ==
    /\ runPc = "publish"
    /\ runIdx <= Len(selected)
    /\ LET pkg == selected[runIdx]
           verify == VerifyFlag(pkg, selected, dryRun)
           \* cargo publish is handed the manifest, which is at the
           \* initial version: no planned version is passed to it.
           key == VersionKey(pkg.initial_version)
           call(out) == [kind |-> "publish", name |-> pkg.name,
                         registry |-> pkg.registry, version |-> key,
                         verify |-> verify, dry_run |-> dryRun,
                         out |-> out, setting |-> ""]
           sleep(setting) ==
               [kind |-> "sleep", name |-> pkg.name,
                registry |-> pkg.registry, version |-> key,
                verify |-> FALSE, dry_run |-> dryRun, out |-> "",
                setting |-> setting]
       IN  IF ~pkg.publish
           THEN /\ runIdx' = runIdx + 1
                /\ UNCHANGED <<server, runPc, exit, trace>>
           ELSE \E out \in PublishOutcomes :
                  IF ~PublishSucceeded(out)
                  THEN /\ trace' = Append(trace, call(out))
                       /\ exit' = Exited(ExitPublishFailed)
                       /\ runPc' = "done"
                       /\ UNCHANGED <<server, runIdx>>
                  ELSE IF dryRun
                  THEN /\ trace' = Append(trace, call(out))
                       /\ runIdx' = runIdx + 1
                       /\ UNCHANGED <<server, runPc, exit>>
                  ELSE \E setting \in GraceSettings :
                       /\ server' =
                            IF pkg.registry = DefaultRegistry
                            THEN [server EXCEPT ![pkg.name] =
                                    Published(server[pkg.name], key)]
                            ELSE server
                       /\ trace' = IF 0 < ParseGrace(setting)
                                   THEN trace \o <<call(out), sleep(setting)>>
                                   ELSE Append(trace, call(out))
                       /\ runIdx' = runIdx + 1
                       /\ UNCHANGED <<runPc, exit>>
    /\ UNCHANGED <<index, cache, etagSupply, last, prev, planVars, dryRun,
                   selected, failed, replaceVars, bumpVars, tagVars, priorVars>>

\* publish() returned Ok: finish(failed, dry_run).
RunFinish ==
    /\ runPc = "publish"
    /\ runIdx > Len(selected)
    /\ exit' = IF failed THEN Exited(ExitPublishFailed) ELSE Returned
    /\ runPc' = "done"
    /\ UNCHANGED <<indexVars, planVars, dryRun, runIdx, selected, failed,
                   trace, replaceVars, bumpVars, tagVars, priorVars>>

\* The packages of one workspace share its verify setting; the first one is
\* on the default registry at the lowest version.
InitRun ==
    /\ \E pa \in RunPackageStates("a"), pb \in RunPackageStates("b") :
          /\ pa.verify = pb.verify
          /\ pa.shared_version = pb.shared_version
          /\ pa.registry = DefaultRegistry
          /\ pa.initial_version.full_version_string = <<"1", ".", "0", ".", "0">>
          /\ pkgs = <<pa, pb>>
    /\ onEntry = << >>
    /\ planPc = "idle"
    /\ dryRun = TRUE
    /\ runPc = "start"
    /\ runIdx = 0
    /\ selected = << >>
    /\ failed = FALSE
    /\ exit = Running
    /\ trace = << >>
    /\ InitIndex
    /\ ReplaceIdle
    /\ BumpIdle
    /\ TagIdle
    /\ PriorIdle

RunIdle ==
    /\ dryRun = TRUE
    /\ runPc = "idle"
    /\ runIdx = 0
    /\ selected = << >>
    /\ failed = FALSE
    /\ exit = Running
    /\ trace = << >>

NextRun ==
    \/ RunPlan
    \/ RunCheck
    \/ RunSelect
    \/ RunVerify
    \/ RunPublish
    \/ RunFinish

-----------------------------------------------------------------------------
(* Specifications *)

NextIndex ==
    \/ \E reg \in Registries, n \in Names :
          \E net \in NetFor(reg, n) :
             has_krate(reg, n, net)
             /\ UNCHANGED <<planVars, replaceVars, runVars, bumpVars,
                            tagVars, priorVars>>
    \/ \E reg \in Registries, n \in Names, v \in VersionIds :
          \E net \in NetFor(reg, n) :
             has_krate_version(reg, n, v, net)
             /\ UNCHANGED <<planVars, replaceVars, runVars, bumpVars,
                            tagVars, priorVars>>
    \/ \E reg \in Registries, n \in Names :
          \E net \in NetFor(reg, n) :
             krate(reg, n, net)
             /\ UNCHANGED <<planVars, replaceVars, runVars, bumpVars,
                            tagVars, priorVars>>
    \/ \E reg \in Registries, n \in Names :
          update_krate(reg, n)
          /\ UNCHANGED <<planVars, replaceVars, runVars, bumpVars,
                         tagVars, priorVars>>
    \/ \E n \in Names :
          ServerPublish(n)
          /\ UNCHANGED <<planVars, replaceVars, runVars, bumpVars,
                         tagVars, priorVars>>

InitOfIndex ==
    /\ InitIndex /\ PlanIdle /\ ReplaceIdle /\ RunIdle /\ BumpIdle /\ TagIdle
    /\ PriorIdle

SpecIndex == InitOfIndex /\ [][NextIndex]_vars

InitOfEtag ==
    /\ InitEtag /\ PlanIdle /\ ReplaceIdle /\ RunIdle /\ BumpIdle /\ TagIdle
    /\ PriorIdle

\* Fetches and invalidations on the default registry.
NextEtag ==
    \/ \E n \in Names :
          \E net \in NetFor(DefaultRegistry, n) :
             krate(DefaultRegistry, n, net)
             /\ UNCHANGED <<planVars, replaceVars, runVars, bumpVars,
                            tagVars, priorVars>>
    \/ \E n \in Names :
          update_krate(DefaultRegistry, n)
          /\ UNCHANGED <<planVars, replaceVars, runVars, bumpVars,
                         tagVars, priorVars>>

SpecEtag == InitOfEtag /\ [][NextEtag]_vars

InitOfPlan ==
    /\ InitPlan /\ IndexIdle /\ ReplaceIdle /\ RunIdle /\ BumpIdle /\ TagIdle
    /\ PriorIdle

SpecPlan == InitOfPlan /\ [][NextPlan]_vars

InitOfReplace ==
    /\ InitReplace /\ IndexIdle /\ PlanIdle /\ RunIdle /\ BumpIdle /\ TagIdle
    /\ PriorIdle

SpecReplace == InitOfReplace /\ [][NextReplace]_vars

SpecRun == InitRun /\ [][NextRun]_vars

InitOfBump ==
    /\ InitBump /\ IndexIdle /\ ReplaceIdle /\ RunIdle /\ TagIdle
    /\ PriorIdle

SpecBump == InitOfBump /\ [][NextBump]_vars

InitOfTag ==
    /\ InitTag /\ IndexIdle /\ PlanIdle /\ ReplaceIdle /\ RunIdle /\ BumpIdle
    /\ PriorIdle

SpecTag == InitOfTag /\ [][NextTag]_vars

InitOfPrior ==
    /\ InitPrior /\ IndexIdle /\ PlanIdle /\ ReplaceIdle /\ RunIdle /\ BumpIdle
    /\ TagIdle

SpecPrior == InitOfPrior /\ [][NextPrior]_vars


-----------------------------------------------------------------------------
(* Claims about the registry index cache *)

QueryOps == {"krate", "has_krate", "has_krate_version"}

\* The last call was a query of the default registry.
DefaultQuery == last.op \in QueryOps /\ last.registry = DefaultRegistry

\* C4 as stated: two successive queries of the default registry for one
\* name, with no update_krate for that name in between, issue at most one
\* network request in total.
C4_AtMostOneRequest ==
    (DefaultQuery /\ last.before.state \in {"ok", "failed"})
        => last.before.reqs + last.reqs <= 1

\* C4 amended: when the first of two successive queries of the default
\* registry for one name returned without error (found or not found) and no
\* update_krate for that name came in between, the second is answered from
\* the cache: it issues no request and returns the entry the first returned,
\* so the two issue at most one request in total.
C4_SecondFromCache ==
    (DefaultQuery /\ last.before.state = "ok")
        => /\ last.source = "cache"
           /\ last.reqs = 0
           /\ last.before.reqs + last.reqs <= 1
           /\ last.ok
           /\ last.entry = last.before.entry

\* C4 witness: a second query answered from the cache after a first one that
\* fetched "not found" with one request.
C4_Witness ==
    /\ DefaultQuery
    /\ last.before.state = "ok"
    /\ last.before.reqs = 1
    /\ ~last.before.entry.some
    /\ last.source = "cache"

\* C5: after update_krate for a name on the default registry the next query
\* for that name is not answered from the cache: it goes to the remote index
\* and, when the fetch succeeds, has issued one request and returns what the
\* registry holds at that moment; update_krate leaves the cache entries of
\* all other names as they were, and those are still served from the cache
\* without a request.
C5_RefetchAfterInvalidate ==
    /\ [](DefaultQuery /\ last.before.state = "invalidated"
            => /\ last.source = "remote"
               /\ last.ok => (last.reqs = 1 /\ last.entry = last.served))
    /\ [][(last' # last /\ last'.op = "update_krate"
            /\ last'.registry = DefaultRegistry)
            => /\ last'.name \notin DOMAIN cache'
               /\ \A m \in Names \ {last'.name} :
                    /\ (m \in DOMAIN cache') = (m \in DOMAIN cache)
                    /\ m \in DOMAIN cache => cache'[m] = cache[m]]_vars
    /\ [][(last' # last /\ last'.op \in QueryOps
            /\ last'.registry = DefaultRegistry
            /\ last'.name \in DOMAIN cache)
            => /\ last'.reqs = 0
               /\ last'.entry = cache[last'.name]]_vars

\* C5 witness: a query after update_krate fetched a state that differs from
\* the entry that had been cached, while the other name is still cached.
C5_Witness ==
    /\ DefaultQuery
    /\ last.before.state = "invalidated"
    /\ last.ok
    /\ last.reqs = 1
    /\ last.before.entry # last.entry
    /\ last.entry = server[last.name]
    /\ \E m \in Names \ {last.name} : m \in DOMAIN cache

\* C7: a query with a non-default registry returns "no entry" (has_krate
\* false, has_krate_version None), issues no request, opens no connection
\* and leaves the cache alone; update_krate with a non-default registry
\* changes nothing either.
C7_OtherRegistryShortCircuits ==
    /\ [](last.op \in QueryOps /\ last.registry # DefaultRegistry
            => /\ last.ok
               /\ ~last.entry.some
               /\ last.reqs = 0
               /\ last.source = "registry"
               /\ last.op = "has_krate" => last.val = "false"
               /\ last.op = "has_krate_version" => last.val = "None")
    /\ [][(last' # last /\ last'.registry # DefaultRegistry)
            => /\ cache' = cache
               /\ index' = index]_vars

\* C7 witness: has_krate_version on another registry said None for a version
\* the default registry lists, with nothing cached and no connection open.
C7_Witness ==
    /\ last.op = "has_krate_version"
    /\ last.registry # DefaultRegistry
    /\ last.val = "None"
    /\ last.version \in server[last.name].versions
    /\ last.name \notin DOMAIN cache
    /\ ~index.some

\* C8 as stated: has_krate_version returns None only for a non-default
\* registry; after a successful query of the default registry it returns
\* Some(true) when the version is listed and Some(false) otherwise, also when
\* the package has no index entry at all.
C8_DefiniteAnswer ==
    (last.op = "has_krate_version" /\ last.ok)
        => last.val = IF last.registry # DefaultRegistry THEN "None"
                      ELSE IF last.version \in last.entry.versions
                           THEN "Some(true)" ELSE "Some(false)"

\* C8: the case the claim is about: a successful has_krate_version on the
\* default registry for a package the registry does not know.
C8_Witness ==
    /\ last.op = "has_krate_version"
    /\ last.ok
    /\ last.registry = DefaultRegistry
    /\ last.source = "remote"
    /\ ~last.entry.some

-----------------------------------------------------------------------------
(* Claims about plan() *)

\* A package's effective version: the planned one if present, else initial.
Effective(pkg) ==
    IF pkg.planned_version.some THEN pkg.planned_version.v
    ELSE pkg.initial_version

\* The release-enabled packages of `ps` that declare group g.
Members(ps, g) ==
    {i \in 1..Len(ps) : ps[i].release /\ ps[i].shared_version = g}

\* b is the greatest of the bare versions in S.
IsMaxBare(b, S) == b \in S /\ \A w \in S : ~SemVerLess(b, w)

BareString(m) == <<NumStr(m), ".", "0", ".", "0">>

\* The scenario of C1: i is at 1.0.0 and not bumped, j is bumped to 2.0.0,
\* both release-enabled in the same group.
C1_Scenario(i, j) ==
    /\ i # j
    /\ onEntry[i].release /\ onEntry[j].release
    /\ onEntry[i].shared_version # ""
    /\ onEntry[i].shared_version = onEntry[j].shared_version
    /\ ~onEntry[i].planned_version.some
    /\ onEntry[i].initial_version.full_version_string = BareString(1)
    /\ onEntry[j].planned_version.some
    /\ onEntry[j].planned_version.v.full_version_string = BareString(2)

\* C1: after plan(), every release-enabled member of a shared-version group
\* has an effective version whose bare version is the greatest bare version
\* among the members' effective versions on entry; in the scenario (a at
\* 1.0.0 not bumped, b bumped to 2.0.0) a's planned bare version is 2.0.0.
C1_GroupConverges ==
    planPc = "planned" =>
        /\ \A g \in Groups : \A i \in Members(pkgs, g) :
              IsMaxBare(Effective(pkgs[i]).bare_version,
                        {Effective(onEntry[j]).bare_version :
                            j \in Members(onEntry, g)})
        /\ \A i, j \in 1..Len(pkgs) :
              C1_Scenario(i, j) =>
                /\ pkgs[i].planned_version.some
                /\ pkgs[i].planned_version.v.bare_version_string
                        = BareString(2)
                /\ pkgs[i].planned_version.v.full_version.build = ""

\* C1 witness: the scenario has been planned.
C1_Witness ==
    /\ planPc = "planned"
    /\ C1_Scenario(1, 2)
    /\ pkgs[1].planned_version.some
    /\ pkgs[1].planned_version.v.bare_version_string = BareString(2)

\* The orders a map of n packages can be iterated in.
Orders(n) ==
    {f \in [1..n -> 1..n] : \A i, j \in 1..n : f[i] = f[j] => i = j}

Reordered(ps, f) == [i \in 1..Len(ps) |-> ps[f[i]]]

ByName(ps, name) == ps[CHOOSE i \in 1..Len(ps) : ps[i].name = name]

\* C2: what plan() returned for each package (planned version with its build
\* metadata, planned tag) is what it returns for that package when the same
\* packages are given in any other order.
C2_OrderIndependent ==
    planPc = "planned" =>
        \A f \in Orders(Len(onEntry)) :
            \A planned \in {plan(Reordered(onEntry, f))} :
                \A i \in 1..Len(pkgs) :
                    LET other == ByName(planned, pkgs[i].name)
                    IN  /\ other.planned_version = pkgs[i].planned_version
                        /\ other.planned_tag = pkgs[i].planned_tag

\* C2 witness: two members of one group were bumped to the same bare version
\* with different build metadata, and both were planned at the greater one.
C2_Witness ==
    /\ planPc = "planned"
    /\ Members(onEntry, "g") = {1, 2}
    /\ onEntry[1].planned_version.some /\ onEntry[2].planned_version.some
    /\ onEntry[1].planned_version.v.bare_version
            = onEntry[2].planned_version.v.bare_version
    /\ onEntry[1].planned_version.v.full_version.build = "b1"
    /\ onEntry[2].planned_version.v.full_version.build = ""
    /\ pkgs[1].planned_version = onEntry[1].planned_version
    /\ pkgs[2].planned_version = onEntry[1].planned_version
    /\ pkgs[2].planned_tag.some

\* C3: plan() leaves the planned version of every package that declares no
\* group, and of every package with release disabled, as it was on entry.
C3_OthersUntouched ==
    planPc = "planned" =>
        \A i \in 1..Len(pkgs) :
            (onEntry[i].shared_version = "" \/ ~onEntry[i].release)
                => pkgs[i].planned_version = onEntry[i].planned_version

\* C3 witness: a release-disabled package that declares group g kept its
\* planned version while an enabled member of g had its own replaced.
C3_Witness ==
    /\ planPc = "planned"
    /\ ~onEntry[1].release
    /\ onEntry[1].shared_version = "g"
    /\ onEntry[1].planned_version.some
    /\ pkgs[1].planned_version = onEntry[1].planned_version
    /\ 2 \in Members(onEntry, "g")
    /\ pkgs[2].planned_version # onEntry[2].planned_version

-----------------------------------------------------------------------------
(* Claims about file replacement *)

\* The count is below the minimum the rule is configured with.
TooFew(rule, n) ==
    n < (CASE rule.min.some -> rule.min.n
           [] ~rule.min.some /\ rule.exactly.some -> rule.exactly.n
           [] OTHER -> 1)

\* The count is above the maximum the rule is configured with.
TooMany(rule, n) ==
    \/ rule.max.some /\ n > rule.max.n
    \/ ~rule.max.some /\ rule.exactly.some /\ n > rule.exactly.n

\* The text a rule's replacement stands for under ReplaceTemplate.
Rendered(rule) ==
    CASE rule.replace = <<"{{version}}">> -> <<"new">>
      [] rule.replace = <<"{{prev_version}}">> -> <<"old">>
      [] OTHER -> rule.replace

\* The rules of a file that were not skipped, as they ran.
StepsRun(f) ==
    {rlog[f].steps[i] : i \in {j \in 1..Len(rlog[f].steps) :
                                  ~rlog[f].steps[j].skipped}}

WasWritten(f) == \E i \in 1..Len(writes) : writes[i] = f

\* C9: for every rule that was not skipped, a match count below the rule's
\* minimum or above its maximum makes the call fail and leaves the rule's
\* file on disk as it was before the call; with a count inside the bounds
\* the rule is applied: every match is replaced by the rendered replacement.
C9_BoundsGuardTheFile ==
    \A f \in Files : \A st \in StepsRun(f) :
        LET n == CountMatches(st.before, st.rule.search) IN
        IF TooFew(st.rule, n) \/ TooMany(st.rule, n)
        THEN /\ rpc = "err"
             /\ rerr.file = f
             /\ disk[f] = disk0[f]
             /\ ~WasWritten(f)
        ELSE /\ Len(st.after) = Len(st.before)
             /\ \A i \in 1..Len(st.before) :
                    st.after[i] = IF st.before[i] = st.rule.search
                                  THEN Rendered(st.rule)[1]
                                  ELSE st.before[i]

\* C9 witness: a file whose first rule changed the content in memory and
\* whose second rule, exactly = 1, found two matches: the call failed.
C9_Witness ==
    /\ rpc = "err"
    /\ rerr.why = "bounds"
    /\ \E f \in Files :
        /\ rerr.file = f
        /\ Len(rlog[f].steps) = 2
        /\ rlog[f].steps[1].after # rlog[f].steps[1].before
        /\ rlog[f].steps[2].rule.exactly = Num(1)
        /\ ~rlog[f].steps[2].rule.min.some
        /\ ~rlog[f].steps[2].rule.max.some
        /\ rlog[f].steps[2].actual = 2
        /\ disk[f] = disk0[f]

\* C10: a file is written if and only if all its rules passed their bounds,
\* the content after all rules differs from the content read and dry_run is
\* false; a written file holds the content after all rules and a file that
\* was not written is as it was before the call.
C10_WriteIff ==
    \A f \in Files :
        LET passed == /\ rlog[f].state \in {"done", "failed"}
                      /\ \A st \in StepsRun(f) :
                            /\ ~TooFew(st.rule, st.actual)
                            /\ ~TooMany(st.rule, st.actual)
        IN  /\ WasWritten(f) <=> /\ passed
                                 /\ rlog[f].replaced # rlog[f].data
                                 /\ ~rargs.dry_run
            /\ WasWritten(f) => disk[f] = FileWith(rlog[f].replaced)
            /\ ~WasWritten(f) => disk[f] = disk0[f]
            /\ Cardinality({i \in 1..Len(writes) : writes[i] = f}) <= 1

\* C10 witness: a real run that ended well, wrote one file and left alone
\* another whose rule matched and rendered the text that was already there.
C10_Witness ==
    /\ rpc = "ok"
    /\ ~rargs.dry_run
    /\ WasWritten("f1")
    /\ ~WasWritten("f2")
    /\ rlog["f2"].state = "done"
    /\ \E st \in StepsRun("f2") : st.actual > 0

-----------------------------------------------------------------------------
(* Claims about the publish run *)

\* The publish invocations that published for real on the default registry.
RealPublishes ==
    {i \in 1..Len(trace) :
        /\ trace[i].kind = "publish"
        /\ trace[i].out = "ok"
        /\ ~trace[i].dry_run
        /\ trace[i].registry = DefaultRegistry}

\* C6: once a package has been published for real, the cache holds no
\* entry for its name that was fetched before the publish: the entry is
\* gone, or it lists the published version, so that a later query for the
\* name observes the publish.
C6_InvalidatedAfterPublish ==
    \A i \in RealPublishes :
        \/ trace[i].name \notin DOMAIN cache
        \/ trace[i].version \in cache[trace[i].name].versions

\* C6 witness: the first package was published for real, the registry lists
\* its version, the cache still says the version is not there, and the run
\* went on to publish the next package.
C6_Witness ==
    /\ 1 \in RealPublishes
    /\ trace[1].name = "a"
    /\ trace[1].version \in server["a"].versions
    /\ "a" \in DOMAIN cache
    /\ trace[1].version \notin cache["a"].versions
    /\ \E j \in RealPublishes : trace[j].name = "b"

\* The publish invocations that did not report success.
FailedPublishes ==
    {i \in 1..Len(trace) : trace[i].kind = "publish" /\ trace[i].out # "ok"}

\* C11: a publish invocation that does not report success is the last thing
\* the run does: no publish invocation and no sleep follows it, the run is
\* over, and when the invocation reported failure the exit code is 101,
\* which is not the code 2 of "no packages selected".
C11_FirstFailureEndsRun ==
    \A i \in FailedPublishes :
        /\ i = Len(trace)
        /\ runPc = "done"
        /\ exit.done
        /\ trace[i].out = "fail"
            => /\ exit.code = ExitPublishFailed
               /\ exit.code # ExitNoPackages

\* C11 witness: a real run whose first invocation reported failure while a
\* second publish-enabled package was selected after it.
C11_Witness ==
    /\ Len(selected) = 2
    /\ selected[1].publish
    /\ selected[2].publish
    /\ ~dryRun
    /\ Len(trace) = 1
    /\ trace[1].out = "fail"
    /\ trace[1].name = selected[1].name
    /\ exit = Exited(ExitPublishFailed)

\* The selected package a trace event is about.
SelectedNamed(name) ==
    selected[CHOOSE k \in 1..Len(selected) : selected[k].name = name]

PublishCalls == {i \in 1..Len(trace) : trace[i].kind = "publish"}

\* C12: the verify flag of every publish invocation is false when the run is
\* a dry run and more than one package was selected, and the package's
\* verify policy otherwise.
C12_VerifySkippedInDryBatch ==
    \A i \in PublishCalls :
        trace[i].verify =
            IF trace[i].dry_run /\ Len(selected) > 1 THEN FALSE
            ELSE SelectedNamed(trace[i].name).verify

\* C12 witness: a dry run over two packages that both require verification
\* invoked both without it.
C12_Witness ==
    /\ dryRun
    /\ Len(selected) = 2
    /\ selected[1].verify
    /\ selected[2].verify
    /\ Len(trace) = 2
    /\ ~trace[1].verify
    /\ ~trace[2].verify

\* A dry run over one package that requires verification invoked it with it.
SinglePackageDryRun ==
    /\ dryRun
    /\ Len(selected) = 1
    /\ selected[1].verify
    /\ Len(trace) = 1
    /\ trace[1].verify

\* The index check of package i is over.
Checked(i) ==
    \/ runPc = "check" /\ runIdx > i
    \/ runPc \in {"verify", "publish", "done"}

\* The index check of package i answered that its effective version, the
\* planned one if present and else the initial one, is listed.
ReportedPublished(i) ==
    /\ pkgs[i].registry = DefaultRegistry
    /\ prev[pkgs[i].name].state = "ok"
    /\ VersionKey(PlannedOrInitial(pkgs[i]))
          \in prev[pkgs[i].name].entry.versions

\* C13: a release-enabled package whose effective version the index check
\* reported as published has its publish and release flags cleared from then
\* on, is not selected and is never handed to the publish capability; when
\* no release-enabled package is left after the checks the run is over with
\* exit code 2 and nothing was verified or published.
C13_PublishedAreSkipped ==
    /\ \A i \in 1..Len(pkgs) :
          (Checked(i) /\ onEntry[i].release /\ ReportedPublished(i))
              => /\ ~pkgs[i].publish
                 /\ ~pkgs[i].release
                 /\ \A k \in 1..Len(selected) : selected[k].name # pkgs[i].name
                 /\ \A k \in 1..Len(trace) : trace[k].name # pkgs[i].name
    /\ (runPc \in {"verify", "publish", "done"}
          /\ \A i \in 1..Len(pkgs) : ~pkgs[i].release)
          => /\ runPc = "done"
             /\ exit = Exited(ExitNoPackages)
             /\ selected = << >>
             /\ trace = << >>
             /\ ~failed

\* C13 witness: the first package, planned at the group's version, was
\* reported as published at that version and dropped; the run then published
\* the second package.
C13_Witness ==
    /\ runPc = "done"
    /\ onEntry[1].release
    /\ pkgs[1].planned_version.some
    /\ ReportedPublished(1)
    /\ ~pkgs[1].release
    /\ Len(trace) >= 1
    /\ trace[1].name = "b"
    /\ trace[1].out = "ok"

\* All release-enabled packages were reported as published: exit code 2.
AllPublishedExit ==
    /\ exit = Exited(ExitNoPackages)
    /\ \A i \in 1..Len(pkgs) : onEntry[i].release /\ ReportedPublished(i)

-----------------------------------------------------------------------------
(* Claims about bump *)

\* C14: bump on a package whose metadata policy is Required, called without
\* a metadata override, fails and leaves the package record, the planned
\* version included, as it was before the call.
C14_RequiredNeedsOverride ==
    (/\ bumpLast.called
     /\ onEntry[bumpLast.i].metadata = "Required"
     /\ ~bumpLast.override.some)
        => /\ ~bumpLast.ok
           /\ pkgs = onEntry

\* C14 witness: the failed call was made on a package that had a planned
\* version from an earlier bump, and that version is still there.
C14_Witness ==
    /\ bumpLast.called
    /\ onEntry[1].metadata = "Required"
    /\ ~bumpLast.override.some
    /\ ~bumpLast.ok
    /\ onEntry[1].planned_version.some
    /\ pkgs[1].planned_version = onEntry[1].planned_version

\* C20: the build metadata bump applies depends on the policy, the initial
\* version's build metadata and the override only: under Optional it is the
\* override if given and none otherwise; under Ignore it is none; under
\* Persistent it is the override if given, otherwise the initial version's
\* build metadata when that is not empty, otherwise none.
C20_AppliedMetadata ==
    bumpLast.called =>
        LET p == onEntry[bumpLast.i]
            init == p.initial_version.full_version.build
            o == bumpLast.override
        IN  /\ p.metadata = "Optional"
                => bumpLast.ok /\ bumpLast.metadata = o
            /\ p.metadata = "Ignore"
                => bumpLast.ok /\ bumpLast.metadata = NoMeta
            /\ p.metadata = "Persistent"
                => /\ bumpLast.ok
                   /\ bumpLast.metadata =
                        IF o.some THEN o
                        ELSE IF init # "" THEN Meta(init) ELSE NoMeta

\* C20 witness: under Persistent an override was applied although the
\* initial version carries other build metadata.
C20_Witness ==
    /\ bumpLast.called
    /\ onEntry[1].metadata = "Persistent"
    /\ onEntry[1].initial_version.full_version.build = "b1"
    /\ bumpLast.override = Meta("b2")
    /\ bumpLast.metadata = Meta("b2")
    /\ pkgs[1].planned_version.some
    /\ pkgs[1].planned_version.v.full_version.build = "b2"

\* Under Persistent, without an override, the initial metadata was applied.
PersistentKeepsInitial ==
    /\ bumpLast.called
    /\ onEntry[1].metadata = "Persistent"
    /\ ~bumpLast.override.some
    /\ bumpLast.metadata = Meta("b1")

-----------------------------------------------------------------------------
(* Claims about tag rendering *)

\* render_tag was called for package foo at version 1.2.3 with the tag-name
\* template `v{{version}}` and the tag-prefix template `{{crate_name}}-`.
FooScenario(tag_name) ==
    /\ tagCall.state = "done"
    /\ tagCall.name = "foo"
    /\ tagCall.base.full_version_string = <<"1", ".", "2", ".", "3">>
    /\ tagCall.tag_prefix = <<"{{crate_name}}", "-">>
    /\ tagCall.tag_name = tag_name

\* C15 as stated: in that scenario the prefix renders as `foo-` and the tag
\* is `foo-v1.2.3`.
C15_PrefixedTag ==
    FooScenario(<<"v", "{{version}}">>)
        => /\ tagCall.prefix = <<"foo", "-">>
           /\ tagCall.tag = <<"foo", "-", "v", "1", ".", "2", ".", "3">>

\* C15: in that scenario the prefix renders as `foo-` and the tag is
\* `v1.2.3`, since the tag-name template does not mention the prefix; with
\* the tag-name template `{{prefix}}v{{version}}` the tag is `foo-v1.2.3`.
C15_TagFollowsTemplate ==
    /\ FooScenario(<<"v", "{{version}}">>)
        => /\ tagCall.prefix = <<"foo", "-">>
           /\ tagCall.tag = <<"v", "1", ".", "2", ".", "3">>
    /\ FooScenario(<<"{{prefix}}", "v", "{{version}}">>)
        => /\ tagCall.prefix = <<"foo", "-">>
           /\ tagCall.tag = <<"foo", "-", "v", "1", ".", "2", ".", "3">>

\* C15 witness: the scenario's call has been made and rendered `v1.2.3`.
C15_Witness ==
    /\ FooScenario(<<"v", "{{version}}">>)
    /\ tagCall.prefix = <<"foo", "-">>
    /\ tagCall.tag = <<"v", "1", ".", "2", ".", "3">>

\* The names of the packages of a list, in its order.
NamesOf(ps) == [i \in 1..Len(ps) |-> ps[i].name]

\* The names the publish capability was invoked for, in order.
Invoked ==
    NamesOf(SelectSeq(trace, LAMBDA e : e.kind = "publish"))

\* publish() went through the whole list and returned Ok.
PublishReturnedOk ==
    /\ runPc = "done"
    /\ selected # << >>
    /\ FailedPublishes = {}
    /\ exit = IF failed THEN Exited(ExitPublishFailed) ELSE Returned

\* C16: plan() keeps the loaded order, the selected list is the
\* release-enabled packages in that order, and the publish invocations made
\* so far are the first of the publish-enabled selected packages, in that
\* order: all of them once publish() has returned Ok, so no package is
\* published before a selected one that precedes it was published or skipped.
C16_PublishInLoadOrder ==
    /\ runPc # "start" => NamesOf(pkgs) = NamesOf(onEntry)
    /\ runPc \in {"verify", "publish"} \/ selected # << >>
        => NamesOf(selected)
             = NamesOf(SelectSeq(pkgs, LAMBDA p : p.release))
    /\ LET enabled ==
              NamesOf(SelectSeq(pkgs, LAMBDA p : p.release /\ p.publish))
       IN  /\ Len(Invoked) <= Len(enabled)
           /\ \A k \in 1..Len(Invoked) : Invoked[k] = enabled[k]
           /\ PublishReturnedOk => Invoked = enabled

\* C16 witness: both packages were selected and published, the first of the
\* loaded order before the second.
C16_Witness ==
    /\ PublishReturnedOk
    /\ NamesOf(onEntry) = <<"a", "b">>
    /\ Invoked = <<"a", "b">>

\* The first package was selected with publish disabled: only the second one
\* was invoked.
SkippedFirst ==
    /\ PublishReturnedOk
    /\ Len(selected) = 2
    /\ ~selected[1].publish
    /\ Invoked = <<"b">>

-----------------------------------------------------------------------------
(* Claims about failed fetches *)

\* C17: a query whose remote fetch fails returns an error, never "absent"
\* or false, and leaves no cache entry for the name; the next query for that
\* name on the default registry goes to the remote again.
C17_FailedFetchIsError ==
    /\ last.op \in QueryOps /\ last.fetch = "failed"
        => /\ ~last.ok
           /\ last.val = "Err"
           /\ last.name \notin DOMAIN cache
    /\ (/\ last.op \in QueryOps
        /\ last.registry = DefaultRegistry
        /\ last.before.state = "failed")
        => /\ last.source = "remote"
           /\ last.fetch # "none"

\* C17 witness: has_krate_version failed after its request was sent, and
\* the query made for that crate before had failed too.
C17_Witness ==
    /\ last.op = "has_krate_version"
    /\ last.fetch = "failed"
    /\ last.reqs = 1
    /\ last.before.state = "failed"
    /\ last.val = "Err"
    /\ last.name \notin DOMAIN cache

\* A fetch that succeeded after one that failed, for a crate the registry
\* lists.
RetrySucceeded ==
    /\ last.op = "has_krate"
    /\ last.before.state = "failed"
    /\ last.fetch = "ok"
    /\ last.val = "true"

-----------------------------------------------------------------------------
(* Claims about the two passes of plan() *)

\* The member of group g whose candidate a scan that replaces the recorded
\* maximum only on a strictly greater bare version ends with: the first, in
\* iteration order, of the members with the greatest bare version.
FirstBareMax(ps, g) ==
    CHOOSE i \in Members(ps, g) :
        /\ \A j \in Members(ps, g) :
              ~SemVerLess(Effective(ps[i]).bare_version,
                          Effective(ps[j]).bare_version)
        /\ \A j \in Members(ps, g) :
              j < i => SemVerLess(Effective(ps[j]).bare_version,
                                  Effective(ps[i]).bare_version)

\* C18 as stated: the scan pass compares bare versions only, so the version
\* it records for a group is the candidate of the first member with the
\* greatest bare version, whatever the build metadata of the candidates.
C18_ScanComparesBare ==
    planPc = "planned" =>
        \A g \in DOMAIN ScanPass(<< >>, onEntry) :
            ScanPass(<< >>, onEntry)[g]
                = Effective(onEntry[FirstBareMax(onEntry, g)])

\* C18 witness: two members of a group with the same bare candidate version,
\* the second with build metadata; the scan recorded the second's, and the
\* first, whose initial version is lower, was planned at it, build metadata
\* included.
C18_Witness ==
    /\ planPc = "planned"
    /\ Members(onEntry, "g") = {1, 2}
    /\ onEntry[1].initial_version.bare_version_string = BareString(1)
    /\ Effective(onEntry[1]).full_version_string = BareString(2)
    /\ Effective(onEntry[2]).full_version_string
            = BareString(2) \o <<"+", "b1">>
    /\ ScanPass(<< >>, onEntry)["g"] = Effective(onEntry[2])
    /\ pkgs[1].planned_version = SomeVersion(Effective(onEntry[2]))

\* The greatest, in semver's order, of the candidate versions of group g.
GroupMax(ps, g) ==
    CHOOSE v \in {Effective(ps[j]) : j \in Members(ps, g)} :
        \A j \in Members(ps, g) :
            ~SemVerLess(v.full_version, Effective(ps[j]).full_version)

\* C19: after plan(), a release-enabled group member whose bare initial
\* version differs from the bare version of the group maximum is planned at
\* the group maximum, build metadata included, and a member whose bare
\* initial version equals it has no planned version, whatever planned
\* version it had on entry.
C19_AssignOrClear ==
    planPc = "planned" =>
        \A g \in Groups : \A i \in Members(onEntry, g) :
            LET shared_max == GroupMax(onEntry, g) IN
            pkgs[i].planned_version =
                IF onEntry[i].initial_version.bare_version
                        # shared_max.bare_version
                THEN SomeVersion(shared_max)
                ELSE NoVersion

\* C19 witness: the first member was bumped from 2.0.0 to 2.0.0+b1 and the
\* second is at 1.0.0; after plan() the first has no planned version and the
\* second is planned at 2.0.0+b1.
C19_Witness ==
    /\ planPc = "planned"
    /\ Members(onEntry, "g") = {1, 2}
    /\ onEntry[1].initial_version.full_version_string = BareString(2)
    /\ onEntry[1].planned_version.some
    /\ onEntry[1].planned_version.v.full_version_string
            = BareString(2) \o <<"+", "b1">>
    /\ Effective(onEntry[2]).full_version_string = BareString(1)
    /\ pkgs[1].planned_version = NoVersion
    /\ pkgs[2].planned_version = onEntry[1].planned_version

-----------------------------------------------------------------------------
(* Claims about repeated bumps *)

\* C21: a bump that succeeds plans the version computed from the initial
\* full version, the target and the resolved metadata, whatever version was
\* planned before; it leaves the initial version alone, and the same bump
\* made again on the result changes nothing.
C21_BumpFromInitial ==
    (bumpLast.called /\ bumpLast.ok) =>
        LET i == bumpLast.i
            before == onEntry[i]
        IN  /\ pkgs[i].initial_version = before.initial_version
            /\ pkgs[i].planned_version =
                  TargetVersion_bump(bumpLast.target,
                                     before.initial_version.full_version,
                                     bumpLast.metadata)
            /\ \A q \in {NoVersion} \cup {SomeVersion(v) : v \in Versions} :
                  BumpPackage([before EXCEPT !.planned_version = q],
                              bumpLast.target, bumpLast.override) = pkgs[i]
            /\ BumpPackage(pkgs[i], bumpLast.target, bumpLast.override)
                  = pkgs[i]

\* C21 witness: a package at 1.0.0 already planned at 2.0.0 was bumped by
\* `major` and is planned at 2.0.0.
C21_Witness ==
    /\ bumpLast.called /\ bumpLast.ok
    /\ bumpLast.target.level = "major"
    /\ ~bumpLast.metadata.some
    /\ onEntry[1].initial_version.full_version_string = BareString(1)
    /\ onEntry[1].planned_version.some
    /\ onEntry[1].planned_version.v.full_version_string = BareString(2)
    /\ pkgs[1].planned_version = onEntry[1].planned_version
    /\ pkgs[1].initial_version = onEntry[1].initial_version

-----------------------------------------------------------------------------
(* Claims about the planned tag *)

RECURSIVE Subst(_, _)
\* A template with every token that `binding` binds replaced by its value.
Subst(s, binding) ==
    IF s = << >> THEN << >>
    ELSE (IF Head(s) \in DOMAIN binding THEN binding[Head(s)]
          ELSE <<Head(s)>>) \o Subst(Tail(s), binding)

\* The bindings of the claim, without the prefix.
TagBindings(name, prevv, base) ==
    [t \in {"{{prev_version}}", "{{prev_metadata}}", "{{version}}",
            "{{metadata}}", "{{crate_name}}"} |->
        CASE t = "{{prev_version}}" -> prevv.bare_version_string
          [] t = "{{prev_metadata}}" -> <<prevv.full_version.build>>
          [] t = "{{version}}" -> base.bare_version_string
          [] t = "{{metadata}}" -> <<base.full_version.build>>
          [] OTHER -> <<name>>]

\* A tag-name template under bindings `b` and with `prefix` bound to the
\* tag-prefix template under the same bindings.
SubstTag(tag_name, tag_prefix, b) ==
    Subst(tag_name,
          [t \in (DOMAIN b) \cup {"{{prefix}}"} |->
              IF t = "{{prefix}}" THEN Subst(tag_prefix, b) ELSE b[t]])

\* The tag of the claim, for a package's configured templates.
ExpectedTag(pkg, prevv, base) ==
    SubstTag(pkg.tag_name, pkg.tag_prefix,
             TagBindings(pkg.name, prevv, base))

\* C22: after plan(), a release-enabled package with tagging enabled has the
\* planned tag rendered from its tag-name template with prev_version and
\* prev_metadata bound to the bare string and build of its initial version,
\* version and metadata to those of its base version (planned, else
\* initial), crate_name to its name and prefix to its tag-prefix template
\* rendered under the same bindings; with tagging disabled it has no planned
\* tag; with release disabled its planned tag is what it was.
C22_PlannedTag ==
    planPc = "planned" =>
        \A i \in 1..Len(pkgs) :
            pkgs[i].planned_tag =
                IF ~pkgs[i].release THEN onEntry[i].planned_tag
                ELSE IF ~pkgs[i].tag THEN None
                ELSE Some(ExpectedTag(pkgs[i], pkgs[i].initial_version,
                                      Effective(pkgs[i])))

\* C22 witness: package a, initial version 1.0.0+b1, planned at 2.0.0 by its
\* group, with the tag-name template that mentions every token and the
\* prefix template `{{version}}/`, has the planned tag
\* `2.0.0/1.0.0+b1-2.0.0+`.
C22_Witness ==
    /\ planPc = "planned"
    /\ pkgs[1].release /\ pkgs[1].tag
    /\ pkgs[1].tag_name = <<"{{prefix}}", "{{prev_version}}", "+",
                            "{{prev_metadata}}", "-", "{{version}}", "+",
                            "{{metadata}}">>
    /\ pkgs[1].tag_prefix = <<"{{version}}", "/">>
    /\ pkgs[1].initial_version.full_version_string
            = BareString(1) \o <<"+", "b1">>
    /\ ~onEntry[1].planned_version.some
    /\ pkgs[1].planned_version.some
    /\ pkgs[1].planned_version.v.full_version_string = BareString(2)
    /\ pkgs[1].planned_tag =
            Some(BareString(2) \o <<"/">> \o BareString(1)
                 \o <<"+", "b1", "-">> \o BareString(2) \o <<"+", "">>)

\* The planned tag with the scenario templates: package a, initial version
\* 1.0.0, planned at 2.0.0+b1, has the planned tag `a-v2.0.0`.
PlannedTagOfScenario ==
    /\ planPc = "planned"
    /\ pkgs[1].release /\ pkgs[1].tag
    /\ pkgs[1].tag_name = <<"{{prefix}}", "v", "{{version}}">>
    /\ pkgs[1].tag_prefix = <<"{{crate_name}}", "-">>
    /\ pkgs[1].initial_version.full_version_string = BareString(1)
    /\ pkgs[1].planned_version.some
    /\ pkgs[1].planned_version.v.full_version_string
            = BareString(2) \o <<"+", "b1">>
    /\ pkgs[1].planned_tag = Some(<<"a", "-", "v">> \o BareString(2))

-----------------------------------------------------------------------------
(* Claims about the prior tag *)

\* The bindings of the glob: a wildcard for every version token.
GlobBindings(name) ==
    [t \in {"{{prev_version}}", "{{prev_metadata}}", "{{version}}",
            "{{metadata}}", "{{crate_name}}"} |->
        IF t = "{{crate_name}}" THEN <<name>> ELSE <<"*">>]

\* C23: when the version-control queries work, load goes on and the prior
\* tag it computed (the package's prior tag until set_prior_tag replaces
\* it) is: the tag rendered from the package's own initial version as both
\* previous and current version if the repository has a tag of that name,
\* and then no glob search is made; otherwise, if the rendered glob
\* compiles, the most recent tag that matches it, or none if no tag does;
\* otherwise none.
C23_PriorTag ==
    (priorCall.state \in {"done", "set"} /\ priorCall.git_ok) =>
        LET c == priorCall
            own == SubstTag(c.tag_name, c.tag_prefix,
                            TagBindings(c.name, c.initial_version,
                                        c.initial_version))
            glob == SubstTag(c.tag_name, c.tag_prefix, GlobBindings(c.name))
            matching == {k \in 1..Len(c.repo) : GlobMatch(glob, c.repo[k])}
        IN  /\ c.ok
            /\ c.state = "done" => c.prior_tag = c.loaded
            /\ IF \E k \in 1..Len(c.repo) : c.repo[k] = own
               THEN c.loaded = Some(own) /\ ~c.searched
               ELSE IF GlobCompiles(glob)
               THEN IF matching = {} THEN c.loaded = None
                    ELSE \E k \in matching :
                            /\ \A j \in matching : k <= j
                            /\ c.loaded = Some(c.repo[k])
               ELSE c.loaded = None /\ ~c.searched

\* C23 witness: the glob rendered for package a does not compile, the
\* repository has tags, and load went on without a prior tag.
C23_Witness ==
    /\ priorCall.state = "done"
    /\ priorCall.git_ok
    /\ priorCall.name = "a"
    /\ priorCall.tag_name = <<"{{prefix}}", "[", "{{version}}">>
    /\ Len(priorCall.repo) = MaxTags
    /\ priorCall.ok
    /\ priorCall.prior_tag = None

\* The exact tag was taken although a more recent tag matches the glob.
ExactBeatsRecent ==
    /\ priorCall.state = "done"
    /\ priorCall.repo = <<<<"a", "-", "v">> \o BareString(2),
                          <<"a", "-", "v">> \o BareString(1)>>
    /\ priorCall.initial_version.full_version_string = BareString(1)
    /\ priorCall.prior_tag = Some(<<"a", "-", "v">> \o BareString(1))
    /\ ~priorCall.searched

\* The glob search took the most recent matching tag, past one of another
\* package.
GlobFindsLatest ==
    /\ priorCall.state = "done"
    /\ priorCall.repo = <<<<"b", "-", "v">> \o BareString(1),
                          <<"a", "-", "v">> \o BareString(1)>>
    /\ priorCall.initial_version.full_version_string = BareString(2)
    /\ priorCall.name = "a"
    /\ priorCall.searched
    /\ priorCall.prior_tag = Some(<<"a", "-", "v">> \o BareString(1))

\* No tag matches the glob: no prior tag, and load went on.
NoMatchNoPrior ==
    /\ priorCall.state = "done"
    /\ priorCall.searched
    /\ priorCall.repo # << >>
    /\ priorCall.ok
    /\ priorCall.prior_tag = None

-----------------------------------------------------------------------------
(* Claims about the effective occurrence bounds *)

\* The rule of step `st` passed its check of the count.
Passed(st) == st.ok

\* C24 as stated: a rule with nothing specified passes exactly with one or
\* more matches, and a rule with `exactly = n` passes exactly with n
\* matches, whatever its `min` and `max` are.
C24_ExactlyPinsBoth ==
    \A f \in Files : \A st \in StepsRun(f) :
        LET r == st.rule IN
        /\ (~r.min.some /\ ~r.max.some /\ ~r.exactly.some)
            => (Passed(st) <=> st.actual >= 1)
        /\ r.exactly.some => (Passed(st) <=> st.actual = r.exactly.n)

\* C24: a rule with nothing specified passes exactly with one or more
\* matches; `exactly = n` is the minimum when `min` is not given and the
\* maximum when `max` is not given; a given `min` or `max` is the bound
\* whatever `exactly` is.
C24_ExactlyFillsIn ==
    \A f \in Files : \A st \in StepsRun(f) :
        LET r == st.rule
            n == st.actual
        IN  /\ (~r.min.some /\ ~r.max.some /\ ~r.exactly.some)
                => (Passed(st) <=> n >= 1)
            /\ (r.exactly.some /\ ~r.min.some /\ ~r.max.some)
                => (Passed(st) <=> n = r.exactly.n)
            /\ (r.exactly.some /\ r.min.some /\ ~r.max.some)
                => (Passed(st) <=> (r.min.n <= n /\ n <= r.exactly.n))
            /\ (r.exactly.some /\ ~r.min.some /\ r.max.some)
                => (Passed(st) <=> (r.exactly.n <= n /\ n <= r.max.n))

\* C24 witness: a rule with min = 0 and exactly = 1 passed with no match.
C24_Witness ==
    \E f \in Files : \E st \in StepsRun(f) :
        /\ st.rule.min = Num(0)
        /\ st.rule.exactly = Num(1)
        /\ ~st.rule.max.some
        /\ st.actual = 0
        /\ Passed(st)
        /\ rpc = "ok"

\* A rule with max = MaxCount and exactly = 1 passed with MaxCount matches.
MaxOverExactly ==
    \E f \in Files : \E st \in StepsRun(f) :
        /\ st.rule.max = Num(MaxCount)
        /\ st.rule.exactly = Num(1)
        /\ st.actual = MaxCount
        /\ Passed(st)

-----------------------------------------------------------------------------
(* Claims about the grace sleep *)

\* The settings that stand for a positive number of seconds.
PositiveSettings == {"5"}

\* C27: every sleep comes directly after a publish invocation of the same
\* package that succeeded in a real run, with a setting that is a positive
\* number; so a dry run has no sleep, a failed invocation and a package with
\* publishing disabled are followed by none, and neither is an absent, zero
\* or unparsable setting.
C27_SleepOnlyAfterRealPublish ==
    /\ \A k \in 1..Len(trace) :
          trace[k].kind = "sleep" =>
              /\ k > 1
              /\ trace[k - 1].kind = "publish"
              /\ trace[k - 1].name = trace[k].name
              /\ trace[k - 1].out = "ok"
              /\ ~trace[k - 1].dry_run
              /\ trace[k].setting \in PositiveSettings
              /\ \E i \in 1..Len(selected) :
                    selected[i].name = trace[k].name /\ selected[i].publish
    /\ dryRun /\ runPc \in {"publish", "done"}
          => \A k \in 1..Len(trace) : trace[k].kind # "sleep"
    /\ \A k \in FailedPublishes : k = Len(trace)

\* C27 witness: a real run published a, slept, and then published b.
C27_Witness ==
    /\ ~dryRun
    /\ Len(trace) >= 3
    /\ trace[1].kind = "publish" /\ trace[1].name = "a"
    /\ trace[1].out = "ok"
    /\ trace[2].kind = "sleep" /\ trace[2].name = "a"
    /\ trace[3].kind = "publish" /\ trace[3].name = "b"

\* A real run published both packages without a sleep.
RealRunNoSleep ==
    /\ ~dryRun
    /\ runPc = "done"
    /\ Len(trace) = 2
    /\ trace[1].kind = "publish" /\ trace[1].out = "ok"
    /\ trace[2].kind = "publish" /\ trace[2].out = "ok"

-----------------------------------------------------------------------------
(* Claims about the order of the rules of a file *)

\* C25: the rules of a file run in declaration order on the content in
\* memory: the first starts from the content read, each later one from what
\* the one before it left; a rule that is not skipped is counted on the
\* content it starts from and, when the count is within bounds, leaves that
\* content with its matches replaced; a rule with prerelease = false is
\* skipped exactly when the prerelease flag is set: it counts nothing, cannot
\* fail and leaves the content as it is.
C25_RulesInOrderOnMemory ==
    \A f \in Files :
        rlog[f].state \in {"done", "failed"} =>
            LET rules == SelectSeq(rargs.replace_config,
                                   LAMBDA r : r.file = f)
                steps == rlog[f].steps
            IN  /\ rlog[f].data = disk0[f].data
                /\ Len(steps) <= Len(rules)
                /\ rlog[f].state = "done" => Len(steps) = Len(rules)
                /\ \A i \in 1..Len(steps) :
                      LET st == steps[i] IN
                      /\ st.rule = rules[i]
                      /\ st.before = IF i = 1 THEN rlog[f].data
                                     ELSE steps[i - 1].after
                      /\ st.skipped <=>
                            (rargs.prerelease /\ ~st.rule.prerelease)
                      /\ st.skipped => (st.ok /\ st.after = st.before)
                      /\ ~st.skipped =>
                            st.actual = CountMatches(st.before, st.rule.search)
                      /\ (~st.skipped /\ st.ok) =>
                            st.after = ReplaceToken(st.before, st.rule.search,
                                                    Rendered(st.rule))
                      /\ ~st.ok => (i = Len(steps) /\ st.after = st.before)

\* C25 witness: the first rule of a file turned `old` into `new`, and the
\* second, which searches `new`, counted more matches than the file had when
\* it was read, and replaced them all.
C25_Witness ==
    \E f \in Files :
        /\ rlog[f].state = "done"
        /\ Len(rlog[f].steps) = 2
        /\ rlog[f].steps[1].rule.search = "old"
        /\ rlog[f].steps[1].after # rlog[f].steps[1].before
        /\ rlog[f].steps[2].rule.search = "new"
        /\ rlog[f].steps[2].actual
                > CountMatches(rlog[f].data, "new")
        /\ CountMatches(rlog[f].steps[2].after, "new") = 0

\* A rule with prerelease = false was skipped and the next rule ran.
SkippedThenApplied ==
    \E f \in Files :
        /\ rargs.prerelease
        /\ Len(rlog[f].steps) = 2
        /\ rlog[f].steps[1].skipped
        /\ ~rlog[f].steps[2].skipped
        /\ rlog[f].steps[2].after # rlog[f].steps[2].before

-----------------------------------------------------------------------------
(* Claims about the files a failed call leaves behind *)

\* The files the configuration has rules for.
TargetFiles(config) == {config[i].file : i \in 1..Len(config)}

\* C28: files are processed one at a time in ascending path order: a file
\* is read only when every target file ordered before it is finished.  When
\* a real call fails at file F, a target file ordered before F has been
\* overwritten, with the content its rules left, exactly when that content
\* differs from what was read; F, every file ordered after F and every
\* file without rules are as they were before the call.
C28_FailureLeavesEarlierFiles ==
    /\ \A f, g \in TargetFiles(rargs.replace_config) :
          (PathRank(g) < PathRank(f) /\ rlog[f].state # "pending")
              => rlog[g].state = "done"
    /\ \A i, j \in 1..Len(writes) :
          i < j => PathRank(writes[i]) < PathRank(writes[j])
    /\ (rpc = "err" /\ ~rargs.dry_run) =>
          \A f \in Files :
              IF /\ f \in TargetFiles(rargs.replace_config)
                 /\ PathRank(f) < PathRank(rerr.file)
              THEN /\ rlog[f].state = "done"
                   /\ WasWritten(f) <=> rlog[f].replaced # rlog[f].data
                   /\ disk[f] = IF rlog[f].replaced # rlog[f].data
                                THEN FileWith(rlog[f].replaced)
                                ELSE disk0[f]
              ELSE /\ ~WasWritten(f)
                   /\ disk[f] = disk0[f]
                   /\ f # rerr.file => rlog[f].state = "pending"

\* C28 witness: the rule of the second file is declared before the rule of
\* the first; a real call overwrote the first file and then failed at the
\* second, which is as it was.
C28_Witness ==
    /\ rpc = "err"
    /\ ~rargs.dry_run
    /\ Len(rargs.replace_config) = 2
    /\ rargs.replace_config[1].file = "f2"
    /\ rargs.replace_config[2].file = "f1"
    /\ rerr.file = "f2"
    /\ writes = <<"f1">>
    /\ disk["f1"] # disk0["f1"]
    /\ disk["f2"] = disk0["f2"]

\* The call failed at the first file and the second was not read.
FailedAtFirst ==
    /\ rpc = "err"
    /\ ~rargs.dry_run
    /\ rerr = [file |-> "f1", why |-> "bounds"]
    /\ "f2" \in TargetFiles(rargs.replace_config)
    /\ rlog["f2"].state = "pending"

-----------------------------------------------------------------------------
(* Claims about cache-validator tokens *)

\* The entries the token table holds for a name.
EtagEntries(name) ==
    IF index.some
    THEN {i \in 1..Len(index.etags) : index.etags[i].krate = name}
    ELSE {}

\* C26: a fetch sends the token the server most recently returned on a fetch
\* of the same name, and the empty string if it never returned one; the
\* token table holds at most one token per name, and it is that latest
\* token: a response without a token, a fetch of another name and
\* update_krate leave it in place.
C26_TokenPerName ==
    /\ (last.op \in QueryOps /\ last.fetch # "none" /\ last.reqs = 1)
        => last.sent = last.before.etag
    /\ \A n \in Names :
          /\ Cardinality(EtagEntries(n)) <= 1
          /\ prev[n].etag = ""  => EtagEntries(n) = {}
          /\ prev[n].etag # "" =>
                \E i \in EtagEntries(n) : index.etags[i].etag = prev[n].etag
    /\ (last.op = "update_krate" /\ last.before.etag # "")
        => \E i \in EtagEntries(last.name) :
                index.etags[i].etag = last.before.etag

\* C26 witness: the server returned e1 and later e2 for crate a; after an
\* update_krate of a, the next fetch of a sent e2, although crate b has a
\* token of its own.
C26_Witness ==
    /\ last.op = "krate"
    /\ last.name = "a"
    /\ last.before.state = "invalidated"
    /\ last.before.etag = "e2"
    /\ last.sent = "e2"
    /\ last.reqs = 1
    /\ prev["b"].etag = "e1"
    /\ index.etags[1] = [krate |-> "a", etag |-> prev["a"].etag]

\* A response that carried no token left the stored one in place.
TokenKept ==
    /\ last.op = "krate"
    /\ last.fetch = "ok"
    /\ last.before.etag = "e1"
    /\ prev[last.name].etag = "e1"
    /\ last.sent = "e1"

=============================================================================
